---- MODULE Spec2Model ----
(***************************************************************************)
(* Model of cnav (Commit Navigator): the commit retrieval operations of    *)
(* src/services/git.ts and the multi-provider inference gateway of         *)
(* src/utils/llm_utils.ts (with getOpenAIApiKey of src/utils/config.ts).   *)
(*                                                                         *)
(* Text is modelled as a sequence of one-character strings, so that        *)
(* split / join / trim / includes / match are computed as the code         *)
(* computes them.                                                          *)
(***************************************************************************)
EXTENDS Integers, Sequences, FiniteSets, TLC

(***************************************************************************)
(* Bounds of the model                                                     *)
(***************************************************************************)
\* commits in the history of the modelled repository
MaxCommits == 2

(***************************************************************************)
(* JavaScript string primitives                                            *)
(***************************************************************************)
NL == "\n"

Whitespace == {" ", "\n", "\t"}

Digits == {"0", "1", "2", "3", "4", "5", "6", "7", "8", "9"}

DigitChars == <<"0", "1", "2", "3", "4", "5", "6", "7", "8", "9">>

SetMin(S) == CHOOSE x \in S : \A y \in S : x <= y

SetMax(S) == CHOOSE x \in S : \A y \in S : x >= y

\* String.prototype.includes
includes(s, pat) ==
  \E i \in 1..(Len(s) - Len(pat) + 1) : SubSeq(s, i, i + Len(pat) - 1) = pat

\* String.prototype.startsWith
startsWith(s, pat) ==
  Len(s) >= Len(pat) /\ SubSeq(s, 1, Len(pat)) = pat

\* String.prototype.endsWith
endsWith(s, suffix) ==
  Len(s) >= Len(suffix) /\ SubSeq(s, Len(s) - Len(suffix) + 1, Len(s)) = suffix

\* String.prototype.trim
trim(s) ==
  LET keep == {i \in 1..Len(s) : s[i] \notin Whitespace}
  IN  IF keep = {} THEN <<>> ELSE SubSeq(s, SetMin(keep), SetMax(keep))

\* String.prototype.split with a one-character separator; split("") is <<"">>
RECURSIVE split(_, _)
split(s, sep) ==
  LET hits == {i \in 1..Len(s) : s[i] = sep}
  IN  IF hits = {} THEN <<s>>
      ELSE LET k == SetMin(hits)
           IN  <<SubSeq(s, 1, k - 1)>> \o split(SubSeq(s, k + 1, Len(s)), sep)

\* Array.prototype.join; join of the empty array is the empty string
RECURSIVE join(_, _)
join(parts, sep) ==
  IF parts = <<>> THEN <<>>
  ELSE IF Len(parts) = 1 THEN parts[1]
  ELSE parts[1] \o <<sep>> \o join(Tail(parts), sep)

(***************************************************************************)
(* Per-commit record construction (git.ts, the body of commits.map)        *)
(***************************************************************************)
LockMarker == <<"l", "o", "c", "k">>

BinaryMarker == <<"B", "i", "n", "a", "r", "y", " ", "f", "i", "l", "e", "s">>

\* file.match(/.*lock.*\..*/): "lock" somewhere, and a dot somewhere after it
matchLockPattern(file) ==
  \E i \in 1..(Len(file) - 3) :
     /\ SubSeq(file, i, i + 3) = LockMarker
     /\ \E j \in (i + 4)..Len(file) : file[j] = "."

\* filesResult.trim().split('\n').filter(file => file.trim() !== '')
files(filesResult) ==
  SelectSeq(split(trim(filesResult), NL), LAMBDA file : trim(file) # <<>>)

filteredFiles(filesResult) ==
  SelectSeq(files(filesResult), LAMBDA file : ~matchLockPattern(file))

filteredDiffStartsWith(diff) ==
  join(SelectSeq(split(diff, NL), LAMBDA line : ~startsWith(line, LockMarker)), NL)

\* diff.split('\n').filter(line => !line.includes('lock')).join('\n')
filteredDiff(diff) ==
  join(SelectSeq(split(diff, NL), LAMBDA line : ~includes(line, LockMarker)), NL)

isBinaryFile(diff) == includes(diff, BinaryMarker)

commitRecordDropsFiles(commit, diff, filesResult) ==
  IF isBinaryFile(diff)
  THEN [hash |-> commit.hash, diff |-> <<>>, files |-> <<>>]
  ELSE [hash |-> commit.hash, diff |-> filteredDiff(diff),
        files |-> filteredFiles(filesResult)]

\* the value returned by the async callback of commits.map
commitRecord(commit, diff, filesResult) ==
  IF isBinaryFile(diff)
  THEN [hash |-> commit.hash, diff |-> <<>>, files |-> filteredFiles(filesResult)]
  ELSE [hash |-> commit.hash, diff |-> filteredDiff(diff),
        files |-> filteredFiles(filesResult)]

(***************************************************************************)
(* Dates: new Date(), setDate, toISOString().slice(0, 10)                  *)
(* A date is [y, m, d]; local time and UTC are taken to coincide.          *)
(***************************************************************************)
IsLeapYear(y) == (y % 4 = 0 /\ y % 100 # 0) \/ y % 400 = 0

DaysInMonth(y, m) ==
  IF m = 2 THEN (IF IsLeapYear(y) THEN 29 ELSE 28)
  ELSE IF m \in {4, 6, 9, 11} THEN 30 ELSE 31

\* Date.prototype.setDate for a day of month that may be zero or negative
RECURSIVE setDate(_, _, _)
setDate(y, m, day) ==
  IF day >= 1 THEN [y |-> y, m |-> m, d |-> day]
  ELSE LET py == IF m = 1 THEN y - 1 ELSE y
           pm == IF m = 1 THEN 12 ELSE m - 1
       IN  setDate(py, pm, day + DaysInMonth(py, pm))

pad2(n) == <<DigitChars[((n \div 10) % 10) + 1], DigitChars[(n % 10) + 1]>>

\* date.toISOString().slice(0, 10)
toISODate(date) ==
  pad2(date.y \div 100) \o pad2(date.y % 100) \o <<"-">> \o pad2(date.m)
    \o <<"-">> \o pad2(date.d)

\* const date = new Date(); date.setDate(date.getDate() - days); toISOString().slice(0, 10)
dateString(today, days) == toISODate(setDate(today.y, today.m, today.d - days))

\* /\d{4}-\d{2}-\d{2}/ matches at position i
isDateAt(s, i) ==
  /\ i + 9 <= Len(s)
  /\ \A k \in {0, 1, 2, 3, 5, 6, 8, 9} : s[i + k] \in Digits
  /\ s[i + 4] = "-"
  /\ s[i + 7] = "-"

dateMatchLast(content) ==
  LET hits == {i \in 1..Len(content) : isDateAt(content, i)}
  IN  IF hits = {} THEN <<>> ELSE SubSeq(content, SetMax(hits), SetMax(hits) + 9)

\* content.match(/\d{4}-\d{2}-\d{2}/): the leftmost match, <<>> when there is none
dateMatch(content) ==
  LET hits == {i \in 1..Len(content) : isDateAt(content, i)}
  IN  IF hits = {} THEN <<>> ELSE SubSeq(content, SetMin(hits), SetMin(hits) + 9)

DefaultSinceDays == 30

\* the since-date of getCommitsSinceLastChangelog
sinceDate(file, today) ==
  LET fromFile == IF file.exists THEN dateMatch(file.content) ELSE <<>>
  IN  IF fromFile # <<>> THEN fromFile ELSE dateString(today, DefaultSinceDays)

(***************************************************************************)
(* Inputs of the retrieval operations                                      *)
(***************************************************************************)
Ops == {"getLastCommits", "getCommitsFromLastDays", "getCommitsSinceLastChangelog"}

\* raw results of git.show([hash])
DiffSamples ==
  { <<"+", "x", "\n", ".", "l", "o", "c", "k", " ", "u", "p", "\n", "-", "y">>,
    <<"+", "x", "\n", "-", "y">>,
    <<"B", "i", "n", "a", "r", "y", " ", "f", "i", "l", "e", "s", "\n", "+", "x">>,
    <<"l", "o", "c", "k", "\n", "l", "o", "c", "k">>,
    <<"L", "o", "c", "k", "\n", "+", "b", "l", "o", "c", "k">> }

\* raw results of git.show(['--name-only', '--pretty=format:', hash])
FilesSamples ==
  { <<"a", ".", "t", "s", "\n", "a", ".", "l", "o", "c", "k", "\n">>,
    <<"\n", "p", "a", "c", "k", "a", "g", "e", "-", "l", "o", "c", "k", ".",
      "j", "s", "o", "n", "\n", "a", ".", "t", "s">>,
    <<>> }

AbsentFile == [exists |-> FALSE, content |-> <<>>]

\* CHANGELOG.md: absent, without a date, with two dates, with a near miss before a date
ChangelogSamples ==
  { AbsentFile,
    [exists |-> TRUE, content |-> <<"#", " ", "L", "o", "g">>],
    [exists |-> TRUE, content |->
       <<"#", "#", " ", "2", "0", "2", "4", "-", "0", "1", "-", "0", "1", "\n",
         "2", "0", "2", "3", "-", "0", "5", "-", "0", "5">>],
    [exists |-> TRUE, content |->
       <<"v", "1", "2", "0", "2", "4", "-", "1", "-", "0", "1", " ",
         "2", "0", "2", "3", "-", "1", "1", "-", "3", "0">>] }

TodaySamples ==
  { [y |-> 2024, m |-> 3, d |-> 1], [y |-> 2025, m |-> 1, d |-> 15],
    [y |-> 2023, m |-> 3, d |-> 31] }

DaysSamples == {1, 7}

NotARepoMessage == <<"Current directory is not a git repository">>

GitFatalNotARepo == <<"fatal: not a git repository">>

GitErrors == {<<"spawn git ENOENT">>, <<"fatal: bad object">>}

hashOf(k) == <<"c", DigitChars[k + 1]>>

(***************************************************************************)
(* State                                                                   *)
(***************************************************************************)
VARIABLES
  op,           \* the retrieval operation being run
  arg,          \* its argument: count, or days
  isRepo,       \* whether process.cwd() is inside a git repository
  history,      \* number of commits in the repository
  changelog,    \* CHANGELOG.md of the working directory
  today,        \* the date new Date() returns
  pc,           \* position of the operation: start, log, fanout, done
  since,        \* the since-date handed to git.log (<<>> when none)
  logAll,       \* log.all, the commits of the log query
  task,         \* per commit: stage of its callback and the raw texts it got
  slot,         \* per commit: the value its callback resolved to
  order,        \* indices of the callbacks in the order they resolved
  outcome,      \* pending, or the returned list, or the thrown error
  failed,       \* messages of the queries that rejected, in the order they did
  logQueries,   \* number of git.log calls issued
  showQueries   \* number of git.show calls issued

gitVars == <<op, arg, isRepo, history, changelog, today, pc, since, logAll, task,
             slot, order, outcome, failed, logQueries, showQueries>>

VARIABLES
  envOpenaiKey,     \* process.env.OPENAI_API_KEY ("" when unset)
  config,           \* the configuration loadConfig() returns
  anthropicKey,     \* what getAnthropicApiKey() returns ("" when none)
  messages,         \* performLLMInference: the unified message list
  options,          \* performLLMInference: the options argument
  llmPc,            \* position of the call: start, resolved, awaiting, done
  provider,         \* the LLMProvider getLLMProvider() resolved to
  requests,         \* the requests dispatched to a backend, in order
  response,         \* what the backend answered to the request
  result            \* pending, or the returned text, or the thrown error

llmVars == <<envOpenaiKey, config, anthropicKey, messages, options, llmPc,
             provider, requests, response, result>>

\* the command handlers lastCommand and analyzeCommand (commands/analyze.ts)
VARIABLES
  cmd,              \* the handler that runs: "last", "analyze"
  cmdOptions,       \* its options: days, review, outputContext, md, oc
  cmdPc,            \* position of the handler
  cwd,              \* process.cwd(): "original" or "target"
  raised,           \* the error the gateway raised, <<>> when none
  printed,          \* what went to the console, in order
  written,          \* the files written into the target directory
  exitCode,         \* -1 while running, 0 on return, 1 after process.exit(1)
  argv,             \* process.argv.slice(2), the words of the command line
  countArg,         \* the first argument of the handler: count, or projectPath
  invoked,          \* the number of invoke_llm calls the handler has made
  retrieval         \* the retrieval lastCommand called, with its number

cmdVars == <<cmd, cmdOptions, cmdPc, cwd, raised, printed, written, exitCode,
             argv, countArg, invoked, retrieval>>

\* getProjectTree (services/git.ts)
VARIABLES
  lsFiles,          \* the output of git ls-files, a text of names, "/" and "\n"
  maxDepth,         \* the maxDepth argument
  treePc,           \* position of the call: start, building, done
  treeFiles,    \* the tracked files left after the exclusion filter
  fileIdx,          \* the next file of the insertion loop
  tree,             \* the nodes of the tree, by path from the root
  treeResult        \* the returned text

treeVars == <<lsFiles, maxDepth, treePc, treeFiles, fileIdx, tree, treeResult>>

\* getProjectInfo (services/git.ts)
VARIABLES
  disk,             \* the working directory: what is at each descriptor's path
  infoPc,           \* position of the call: start, done, failed
  cfgIdx,           \* the next descriptor of the discovery loop
  examined,         \* the paths the loop has examined, in order
  foundConfigs,     \* the recorded entries, by <<category, path>>
  projectInfo,      \* the returned object, by key
  infoError         \* the message of the thrown error, <<>> when none

infoVars == <<disk, infoPc, cfgIdx, examined, foundConfigs, projectInfo, infoError>>

\* findReadmeFiles (utils/utils.ts)
VARIABLES
  baseDirExists,    \* whether baseDir is a directory that can be searched
  docs,             \* what is at each candidate path below baseDir
  readmePc,         \* position of the call: start, reading, done
  found,            \* the paths glob resolved to, in order
  readIdx,          \* the next path of the reading loop
  readmeResult,     \* the mapping built so far, then returned
  warnings          \* the paths warned about

readmeVars == <<baseDirExists, docs, readmePc, found, readIdx, readmeResult, warnings>>

\* createAnalysisPrompt (services/analysis.ts) and generateRepositoryContext
\* (commands/analyze.ts)
VARIABLES
  promptCommits,    \* the commits argument
  promptInfo,       \* the projectInfo argument
  promptTree,       \* the projectTree argument
  performCodeReview, \* options.performCodeReview
  built,            \* which of the two functions have been applied
  prompt,           \* what createAnalysisPrompt returned or threw
  context           \* what generateRepositoryContext returned or threw

promptVars == <<promptCommits, promptInfo, promptTree, performCodeReview, built,
                prompt, context>>

\* the prompt builders called again as time passes: createAnalysisPrompt
\* (services/analysis.ts), createProjectAnalysisPrompt (commands/analyze.ts)
\* and createChangelogPrompt (services/changelog.ts)
VARIABLES
  clock,            \* the system date, what new Date() reads
  format,           \* options.format of the changelog request
  outputs           \* the results each builder has returned so far, by name

assemblyVars == <<clock, format, outputs>>

\* changelogCommand (commands/changelog.ts)
VARIABLES
  changelogPc,      \* position of the handler: start, generating, writing, done
  changelogFile,    \* CHANGELOG.md on disk: whether it exists, and its content
  fileAtStart,      \* CHANGELOG.md as it was when the command started
  newCommits,       \* the commits retrieved since the last entry
  changelogContent, \* the entry generateChangelog returned
  completions,      \* the number of chat completion requests made
  changelogExit     \* the exit code, -1 while the process runs

changelogVars == <<changelogPc, changelogFile, fileAtStart, newCommits,
                   changelogContent, completions, changelogExit>>

vars == <<gitVars, llmVars, cmdVars, treeVars, infoVars, readmeVars, promptVars,
          assemblyVars, changelogVars>>

\* what an action of one part leaves alone
notGit == <<llmVars, cmdVars, treeVars, infoVars, readmeVars, promptVars,
  assemblyVars, changelogVars>>

notLLM == <<gitVars, cmdVars, treeVars, infoVars, readmeVars, promptVars,
  assemblyVars, changelogVars>>

notCmd == <<gitVars, llmVars, treeVars, infoVars, readmeVars, promptVars,
  assemblyVars, changelogVars>>

notTree == <<gitVars, llmVars, cmdVars, infoVars, readmeVars, promptVars,
  assemblyVars, changelogVars>>

notInfo == <<gitVars, llmVars, cmdVars, treeVars, readmeVars, promptVars,
  assemblyVars, changelogVars>>

notReadme == <<gitVars, llmVars, cmdVars, treeVars, infoVars, promptVars,
  assemblyVars, changelogVars>>

notPrompt == <<gitVars, llmVars, cmdVars, treeVars, infoVars, readmeVars,
  assemblyVars, changelogVars>>

notAssembly == <<gitVars, llmVars, cmdVars, treeVars, infoVars, readmeVars, promptVars,
  changelogVars>>

notChangelog == <<gitVars, llmVars, cmdVars, treeVars, infoVars, readmeVars, promptVars,
  assemblyVars>>

Pending == [kind |-> "pending", list |-> <<>>, message |-> <<>>]

NoSlot == [hash |-> <<>>, diff |-> <<>>, files |-> <<>>]

NewTask == [stage |-> "diff", diff |-> <<>>, filesResult |-> <<>>]

catchWrapGeneric(message) ==
  [kind |-> "err", list |-> <<>>, message |-> <<"Failed to get commits">>]

\* catch (error) { throw new Error(`Failed to get commits: ${error.message}`) }
catchWrap(message) ==
  [kind |-> "err", list |-> <<>>, message |-> <<"Failed to get commits: ">> \o message]

PromiseAllCompletionOrder(slots, completion) ==
  [i \in 1..Len(completion) |-> slots[completion[i]]]

\* Promise.all resolves to the values in the order of the input array
PromiseAll(slots, completion) == [i \in 1..Len(slots) |-> slots[i]]

InitGitInputs ==
  /\ op \in Ops
  /\ arg \in IF op = "getLastCommits" THEN 1..MaxCommits
             ELSE IF op = "getCommitsFromLastDays" THEN DaysSamples ELSE {0}
  /\ isRepo \in BOOLEAN
  /\ history \in IF isRepo THEN 0..MaxCommits ELSE {0}
  /\ changelog \in IF op = "getCommitsSinceLastChangelog" THEN ChangelogSamples
                   ELSE {AbsentFile}
  /\ today \in IF op = "getLastCommits" THEN {[y |-> 2024, m |-> 3, d |-> 1]}
               ELSE TodaySamples
  /\ pc = "start"
  /\ since = <<>>
  /\ logAll = <<>>
  /\ task = <<>>
  /\ slot = <<>>
  /\ order = <<>>
  /\ outcome = Pending
  /\ failed = <<>>
  /\ logQueries = 0
  /\ showQueries = 0

(***************************************************************************)
(* Steps of the retrieval operations                                       *)
(***************************************************************************)
\* getLastCommits / getCommitsFromLastDays: await git.checkIsRepo()
checkIsRepo ==
  /\ pc = "start"
  /\ op \in {"getLastCommits", "getCommitsFromLastDays"}
  /\ IF isRepo
     THEN /\ pc' = "log"
          /\ since' = IF op = "getCommitsFromLastDays"
                      THEN dateString(today, arg) ELSE <<>>
          /\ UNCHANGED outcome
     ELSE /\ pc' = "done"
          /\ outcome' = catchWrap(NotARepoMessage)
          /\ UNCHANGED since
  /\ UNCHANGED notGit
  /\ UNCHANGED <<op, arg, isRepo, history, changelog, today, logAll, task, slot,
                 order, failed, logQueries, showQueries>>

\* getCommitsSinceLastChangelog: read CHANGELOG.md and settle the since-date
resolveSinceDate ==
  /\ pc = "start"
  /\ op = "getCommitsSinceLastChangelog"
  /\ since' = sinceDate(changelog, today)
  /\ pc' = "log"
  /\ UNCHANGED notGit
  /\ UNCHANGED <<op, arg, isRepo, history, changelog, today, logAll, task, slot,
                 order, outcome, failed, logQueries, showQueries>>

\* number of commits git.log can answer with
LogSizes ==
  IF op = "getLastCommits"
  THEN {IF arg < history THEN arg ELSE history}
  ELSE 0..history

\* await git.log(...) succeeds; every callback of commits.map runs to its first await
gitLog ==
  /\ pc = "log"
  /\ isRepo
  /\ \E n \in LogSizes :
       /\ logAll' = [k \in 1..n |-> [hash |-> hashOf(k)]]
       /\ task' = [k \in 1..n |-> NewTask]
       /\ slot' = [k \in 1..n |-> NoSlot]
       /\ showQueries' = showQueries + n
       /\ IF n = 0
          THEN /\ pc' = "done"
               /\ outcome' = [kind |-> "ok", list |-> <<>>, message |-> <<>>]
          ELSE /\ pc' = "fanout"
               /\ UNCHANGED outcome
  /\ logQueries' = logQueries + 1
  /\ UNCHANGED notGit
  /\ UNCHANGED <<op, arg, isRepo, history, changelog, today, since, order, failed>>

\* await git.log(...) rejects; outside a repository git itself reports it
gitLogFails ==
  /\ pc = "log"
  /\ \E message \in IF isRepo THEN GitErrors ELSE {GitFatalNotARepo} :
       /\ outcome' = catchWrap(message)
       /\ failed' = Append(failed, message)
  /\ pc' = "done"
  /\ logQueries' = logQueries + 1
  /\ UNCHANGED notGit
  /\ UNCHANGED <<op, arg, isRepo, history, changelog, today, since, logAll, task,
                 slot, order, showQueries>>

\* callback i: await git.show([commit.hash]) resolves, the name-only show is issued
showDiff(i) ==
  /\ task[i].stage = "diff"
  /\ \E diff \in DiffSamples :
       task' = [task EXCEPT ![i] = [stage |-> "files", diff |-> diff,
                                    filesResult |-> <<>>]]
  /\ showQueries' = showQueries + 1
  /\ UNCHANGED notGit
  /\ UNCHANGED <<op, arg, isRepo, history, changelog, today, pc, since, logAll,
                 slot, order, outcome, failed, logQueries>>

\* a rejected callback rejects Promise.all once; the catch block rethrows it wrapped
reject(i, message) ==
  /\ task' = [task EXCEPT ![i].stage = "failed"]
  /\ failed' = Append(failed, message)
  /\ IF outcome.kind = "pending"
     THEN outcome' = catchWrap(message) /\ pc' = "done"
     ELSE UNCHANGED <<outcome, pc>>

\* callback i: await git.show([commit.hash]) rejects
showDiffFails(i) ==
  /\ task[i].stage = "diff"
  /\ \E message \in GitErrors : reject(i, message)
  /\ UNCHANGED notGit
  /\ UNCHANGED <<op, arg, isRepo, history, changelog, today, since, logAll, slot,
                 order, logQueries, showQueries>>

\* callback i: the name-only show resolves and the callback returns its record
showFiles(i) ==
  /\ task[i].stage = "files"
  /\ \E filesResult \in FilesSamples :
       /\ task' = [task EXCEPT ![i].stage = "done", ![i].filesResult = filesResult]
       /\ slot' = [slot EXCEPT ![i] = commitRecord(logAll[i], task[i].diff, filesResult)]
  /\ order' = Append(order, i)
  /\ IF outcome.kind = "pending" /\ \A k \in 1..Len(task') : task'[k].stage = "done"
     THEN /\ outcome' = [kind |-> "ok", list |-> PromiseAll(slot', order'),
                         message |-> <<>>]
          /\ pc' = "done"
     ELSE UNCHANGED <<outcome, pc>>
  /\ UNCHANGED notGit
  /\ UNCHANGED <<op, arg, isRepo, history, changelog, today, since, logAll,
                 failed, logQueries, showQueries>>

\* callback i: the name-only show rejects
showFilesFails(i) ==
  /\ task[i].stage = "files"
  /\ \E message \in GitErrors : reject(i, message)
  /\ UNCHANGED notGit
  /\ UNCHANGED <<op, arg, isRepo, history, changelog, today, since, logAll, slot,
                 order, logQueries, showQueries>>

(***************************************************************************)
(* Inference gateway: getOpenAIApiKey, getLLMProvider, performLLMInference *)
(* Text is a sequence of tokens; "" and <<>> stand for undefined or empty. *)
(***************************************************************************)
DefaultMaxTokens == 20000

OpenAIMaxTokens == 5000

AnthropicMaxTokens == 4096

\* temperature in tenths
DefaultTemperature == 2

DefaultOpenAIModel == "gpt-4o-mini"

DefaultAnthropicModel == "claude-3-haiku-20240307"

DefaultSystemMessage == <<"You are a helpful assistant.">>

NoResponse == <<"No response available">>

NoApiKeyMessage ==
  <<"No ", "API key", " found. Please set up an ", "API key", " to continue.">>

NotGiven == [given |-> FALSE, value |-> 0]

Given(n) == [given |-> TRUE, value |-> n]

MathMin(a, b) == IF a <= b THEN a ELSE b

\* getOpenAIApiKey: the environment variable first, then the config file
getOpenAIApiKey(envKey, cfg) ==
  IF envKey # "" THEN envKey
  ELSE IF cfg.openaiApiKey # "" THEN cfg.openaiApiKey
  ELSE ""

NoProvider == [provider |-> "none", apiKey |-> ""]

resolveProviderAnthropicFirst(openaiKey, anthropic) ==
  IF anthropic # "" THEN [provider |-> "anthropic", apiKey |-> anthropic]
  ELSE IF openaiKey # "" THEN [provider |-> "openai", apiKey |-> openaiKey]
  ELSE NoProvider

\* getLLMProvider: OpenAI when its key is there, else Anthropic, else none (throws)
resolveProvider(openaiKey, anthropic) ==
  IF openaiKey # "" THEN [provider |-> "openai", apiKey |-> openaiKey]
  ELSE IF anthropic # "" THEN [provider |-> "anthropic", apiKey |-> anthropic]
  ELSE NoProvider

\* const { model, maxTokens = 20000, temperature = 0.2, systemMessage } = options
maxTokensOf(opts) ==
  IF opts.maxTokens.given THEN opts.maxTokens.value ELSE DefaultMaxTokens

temperatureOf(opts) ==
  IF opts.temperature.given THEN opts.temperature.value ELSE DefaultTemperature

hasSystemRole(msgs) == \E k \in 1..Len(msgs) : msgs[k].role = "system"

\* the messages array sent to OpenAI
openaiMessages(msgs, opts) ==
  IF opts.systemMessage # <<>> /\ ~hasSystemRole(msgs)
  THEN <<[role |-> "system", content |-> opts.systemMessage]>> \o msgs
  ELSE msgs

openaiRequestUnclamped(msgs, opts) ==
  [backend |-> "openai",
   model |-> IF opts.model # "" THEN opts.model ELSE DefaultOpenAIModel,
   messages |-> openaiMessages(msgs, opts),
   temperature |-> temperatureOf(opts),
   max_tokens |-> maxTokensOf(opts),
   system |-> <<>>]

\* the argument of provider.client.chat.completions.create
openaiRequest(msgs, opts) ==
  [backend |-> "openai",
   model |-> IF opts.model # "" THEN opts.model ELSE DefaultOpenAIModel,
   messages |-> openaiMessages(msgs, opts),
   temperature |-> temperatureOf(opts),
   max_tokens |-> MathMin(maxTokensOf(opts), OpenAIMaxTokens),
   system |-> <<>>]

userMessages(msgs) == SelectSeq(msgs, LAMBDA m : m.role # "system")

systemMessages(msgs) == SelectSeq(msgs, LAMBDA m : m.role = "system")

contentsOf(msgs) == [k \in 1..Len(msgs) |-> msgs[k].content]

\* systemMessage || systemMessages.map(m => m.content).join('\n') || default
finalSystemMessage(msgs, opts) ==
  IF opts.systemMessage # <<>> THEN opts.systemMessage
  ELSE IF join(contentsOf(systemMessages(msgs)), NL) # <<>>
       THEN join(contentsOf(systemMessages(msgs)), NL)
       ELSE DefaultSystemMessage

anthropicRequestCoercingSystem(msgs, opts) ==
  [backend |-> "anthropic",
   model |-> IF opts.model # "" THEN opts.model ELSE DefaultAnthropicModel,
   messages |-> [k \in 1..Len(msgs) |->
                   [role |-> IF msgs[k].role = "system" THEN "user" ELSE msgs[k].role,
                    content |-> msgs[k].content]],
   temperature |-> temperatureOf(opts),
   max_tokens |-> MathMin(maxTokensOf(opts), AnthropicMaxTokens),
   system |-> finalSystemMessage(msgs, opts)]

\* the JSON body posted to https://api.anthropic.com/v1/messages
anthropicRequest(msgs, opts) ==
  [backend |-> "anthropic",
   model |-> IF opts.model # "" THEN opts.model ELSE DefaultAnthropicModel,
   messages |-> [k \in 1..Len(userMessages(msgs)) |->
                   [role |-> IF userMessages(msgs)[k].role = "system" THEN "user"
                             ELSE userMessages(msgs)[k].role,
                    content |-> userMessages(msgs)[k].content]],
   temperature |-> temperatureOf(opts),
   max_tokens |-> MathMin(maxTokensOf(opts), AnthropicMaxTokens),
   system |-> finalSystemMessage(msgs, opts)]

\* a parsed body: the list at choices (OpenAI) or content (Anthropic), and for
\* each item whether it has a message and the text at message.content or text
\* (<<>> for a text that is undefined, null or empty)
NoData == [hasList |-> FALSE, items |-> <<>>]

\* response.choices[0] on a body without choices: reading [0] of undefined
ChoicesTypeError == <<"Cannot read properties of undefined (reading '0')">>

\* response.choices[0]?.message?.content
openaiContent(data) ==
  IF Len(data.items) = 0 THEN <<>>
  ELSE IF ~data.items[1].hasMessage THEN <<>>
  ELSE data.items[1].text

\* (data as any).content?.[0]?.text
anthropicText(data) ==
  IF ~data.hasList THEN <<>>
  ELSE IF Len(data.items) = 0 THEN <<>>
  ELSE data.items[1].text

\* text || 'No response available'
textOrNoResponse(text) == IF text # <<>> THEN text ELSE NoResponse

(***************************************************************************)
(* Inputs of the gateway                                                   *)
(***************************************************************************)
MaxTokensSamples ==
  {NotGiven, Given(1), Given(4096), Given(4097), Given(5000), Given(5001), Given(20000)}

MessagesSamples ==
  { <<[role |-> "user", content |-> <<"prompt">>]>>,
    <<[role |-> "system", content |-> <<"be brief">>],
      [role |-> "user", content |-> <<"prompt">>]>>,
    <<[role |-> "system", content |-> <<"be brief">>],
      [role |-> "user", content |-> <<"prompt">>],
      [role |-> "assistant", content |-> <<"draft">>],
      [role |-> "system", content |-> <<"be kind">>]>> }

SystemMessageSamples == {<<>>, <<"You are an expert">>}

\* bodies of a successful OpenAI answer
OpenAIResponses ==
  { [hasList |-> TRUE, items |-> <<[hasMessage |-> TRUE, text |-> <<"analysis">>]>>],
    NoData,
    [hasList |-> TRUE, items |-> <<>>],
    [hasList |-> TRUE, items |-> <<[hasMessage |-> FALSE, text |-> <<>>]>>],
    [hasList |-> TRUE, items |-> <<[hasMessage |-> TRUE, text |-> <<>>]>>] }

\* bodies of a successful Anthropic answer
AnthropicResponses ==
  { [hasList |-> TRUE, items |-> <<[hasMessage |-> TRUE, text |-> <<"analysis">>]>>],
    NoData,
    [hasList |-> TRUE, items |-> <<>>],
    [hasList |-> TRUE, items |-> <<[hasMessage |-> TRUE, text |-> <<>>]>>] }

TransportErrors == {<<"Connection error.">>, <<"429 rate limited">>}

\* non-success HTTP answers of the Anthropic endpoint: status text and body
HttpFailures ==
  { [status |-> "401", statusText |-> "Unauthorized", body |-> "invalid x-api-key"],
    [status |-> "529", statusText |-> "Overloaded", body |-> "overloaded_error"] }

NoAnswer ==
  [kind |-> "none", data |-> NoData, status |-> "", statusText |-> "", body |-> ""]

Answered(data) ==
  [kind |-> "body", data |-> data, status |-> "200", statusText |-> "OK", body |-> ""]

Refused(failure) ==
  [kind |-> "status", data |-> NoData, status |-> failure.status,
   statusText |-> failure.statusText, body |-> failure.body]

Unreachable ==
  [kind |-> "rejected", data |-> NoData, status |-> "", statusText |-> "", body |-> ""]

LLMPending == [kind |-> "pending", text |-> <<>>, message |-> <<>>]

InitLLMInputs ==
  /\ envOpenaiKey \in {"", "sk-env"}
  /\ config \in {[openaiApiKey |-> ""], [openaiApiKey |-> "sk-config"]}
  /\ anthropicKey \in {"", "sk-ant"}
  /\ messages \in MessagesSamples
  /\ options \in [model : {""}, maxTokens : MaxTokensSamples,
                  temperature : {NotGiven}, systemMessage : SystemMessageSamples]
  /\ llmPc = "start"
  /\ provider = NoProvider
  /\ requests = <<>>
  /\ response = NoAnswer
  /\ result = LLMPending

(***************************************************************************)
(* Steps of performLLMInference                                            *)
(***************************************************************************)
\* const provider = await getLLMProvider(), when a key is found
getLLMProvider ==
  /\ llmPc = "start"
  /\ resolveProvider(getOpenAIApiKey(envOpenaiKey, config), anthropicKey) # NoProvider
  /\ provider' = resolveProvider(getOpenAIApiKey(envOpenaiKey, config), anthropicKey)
  /\ llmPc' = "resolved"
  /\ UNCHANGED notLLM
  /\ UNCHANGED <<envOpenaiKey, config, anthropicKey, messages, options, requests,
                 response, result>>

\* getLLMProvider throws when neither key is found
getLLMProviderThrows ==
  /\ llmPc = "start"
  /\ resolveProvider(getOpenAIApiKey(envOpenaiKey, config), anthropicKey) = NoProvider
  /\ result' = [kind |-> "err", text |-> <<>>, message |-> NoApiKeyMessage]
  /\ llmPc' = "done"
  /\ UNCHANGED notLLM
  /\ UNCHANGED <<envOpenaiKey, config, anthropicKey, messages, options, provider,
                 requests>>
  /\ UNCHANGED response

\* provider.client.chat.completions.create({...}) is called
dispatchOpenAI ==
  /\ llmPc = "resolved"
  /\ provider.provider = "openai"
  /\ requests' = Append(requests, openaiRequest(messages, options))
  /\ llmPc' = "awaiting"
  /\ UNCHANGED notLLM
  /\ UNCHANGED <<envOpenaiKey, config, anthropicKey, messages, options, provider,
                 response, result>>

\* fetch('https://api.anthropic.com/v1/messages', {...}) is called
dispatchAnthropic ==
  /\ llmPc = "resolved"
  /\ provider.provider # "openai"
  /\ requests' = Append(requests, anthropicRequest(messages, options))
  /\ llmPc' = "awaiting"
  /\ UNCHANGED notLLM
  /\ UNCHANGED <<envOpenaiKey, config, anthropicKey, messages, options, provider,
                 response, result>>

\* the awaited create(...) resolves: return choices[0]?.message?.content || ...
openaiResponds ==
  /\ llmPc = "awaiting"
  /\ provider.provider = "openai"
  /\ \E data \in OpenAIResponses :
       /\ response' = Answered(data)
       /\ result' = IF data.hasList
                    THEN [kind |-> "ok", text |-> textOrNoResponse(openaiContent(data)),
                          message |-> <<>>]
                    ELSE [kind |-> "err", text |-> <<>>, message |-> ChoicesTypeError]
  /\ llmPc' = "done"
  /\ UNCHANGED notLLM
  /\ UNCHANGED <<envOpenaiKey, config, anthropicKey, messages, options, provider,
                 requests>>

\* the awaited fetch resolves with ok status: return content?.[0]?.text || ...
anthropicResponds ==
  /\ llmPc = "awaiting"
  /\ provider.provider = "anthropic"
  /\ \E data \in AnthropicResponses :
       /\ response' = Answered(data)
       /\ result' = [kind |-> "ok", text |-> textOrNoResponse(anthropicText(data)),
                     message |-> <<>>]
  /\ llmPc' = "done"
  /\ UNCHANGED notLLM
  /\ UNCHANGED <<envOpenaiKey, config, anthropicKey, messages, options, provider,
                 requests>>

backendRejectsWithFallback ==
  /\ llmPc = "awaiting"
  /\ \E error \in TransportErrors :
       IF provider.provider = "openai" /\ anthropicKey # ""
       THEN /\ provider' = [provider |-> "anthropic", apiKey |-> anthropicKey]
            /\ llmPc' = "resolved"
            /\ UNCHANGED result
       ELSE /\ result' = [kind |-> "err", text |-> <<>>, message |-> error]
            /\ llmPc' = "done"
            /\ UNCHANGED provider
  /\ response' = Unreachable
  /\ UNCHANGED notLLM
  /\ UNCHANGED <<envOpenaiKey, config, anthropicKey, messages, options, requests>>

\* the awaited create(...) or fetch(...) rejects: the error leaves the function
backendRejects ==
  /\ llmPc = "awaiting"
  /\ \E error \in TransportErrors :
       result' = [kind |-> "err", text |-> <<>>, message |-> error]
  /\ response' = Unreachable
  /\ llmPc' = "done"
  /\ UNCHANGED notLLM
  /\ UNCHANGED <<envOpenaiKey, config, anthropicKey, messages, options, provider,
                 requests>>

\* OpenAI answers with a non-success status: the SDK's create(...) rejects with
\* an error made of the status and the body, which leaves the function as it is
openaiNotOk ==
  /\ llmPc = "awaiting"
  /\ provider.provider = "openai"
  /\ \E failure \in HttpFailures :
       /\ response' = Refused(failure)
       /\ result' = [kind |-> "err", text |-> <<>>,
                     message |-> <<failure.status, " ", failure.body>>]
  /\ llmPc' = "done"
  /\ UNCHANGED notLLM
  /\ UNCHANGED <<envOpenaiKey, config, anthropicKey, messages, options, provider,
                 requests>>

anthropicNotOkStatusOnly ==
  /\ llmPc = "awaiting"
  /\ provider.provider = "anthropic"
  /\ \E failure \in HttpFailures :
       /\ response' = Refused(failure)
       /\ result' = [kind |-> "err", text |-> <<>>,
                     message |-> <<"Anthropic API error: ", failure.statusText>>]
  /\ llmPc' = "done"
  /\ UNCHANGED notLLM
  /\ UNCHANGED <<envOpenaiKey, config, anthropicKey, messages, options, provider,
                 requests>>

\* Anthropic answers with a non-success status: if (!anthropicRes.ok) throw
anthropicNotOk ==
  /\ llmPc = "awaiting"
  /\ provider.provider = "anthropic"
  /\ \E failure \in HttpFailures :
       /\ response' = Refused(failure)
       /\ result' = [kind |-> "err", text |-> <<>>,
                     message |-> <<"Anthropic API error: ", failure.statusText, " - ",
                                   failure.body>>]
  /\ llmPc' = "done"
  /\ UNCHANGED notLLM
  /\ UNCHANGED <<envOpenaiKey, config, anthropicKey, messages, options, provider,
                 requests>>

(***************************************************************************)
(* The command handlers (commands/analyze.ts) and analyzeCommits            *)
(* (services/analysis.ts).  A message is a sequence of tokens; the text     *)
(* "API key" is always a token of its own, so that message.includes('API    *)
(* key') is membership of that token.                                       *)
(***************************************************************************)
\* an options object with no option set; days is the text given, "" when none
NoOptions ==
  [days |-> "", review |-> FALSE, outputContext |-> FALSE, md |-> FALSE, oc |-> FALSE]

\* error.message.includes('API key')
includesApiKey(message) == \E i \in 1..Len(message) : message[i] = "API key"

InvalidKeyMessage ==
  <<"Invalid or missing LLM ", "API key", ". Please check your configuration.">>

\* what performLLMInference can reject with
GatewayErrors ==
  {NoApiKeyMessage, ChoicesTypeError} \cup TransportErrors
  \cup {<<"Anthropic API error: ", f.statusText, " - ", f.body>> : f \in HttpFailures}
  \cup {<<f.status, " ", f.body>> : f \in HttpFailures}
  \cup {<<"401", " ", "Incorrect ", "API key", " provided">>}

\* what performLLMInference can resolve to
GatewayTexts == {<<"analysis">>, NoResponse}

CannotAccessPath == <<"Cannot access path: ", "target">>

WriteErrors == {<<"EACCES: permission denied, open">>}

NoCommitsFound == <<"No commits found in the specified range.">>

\* what getProjectInfo can reject with
ProjectInfoErrors == {<<"Failed to get project info: ", "EACCES: permission denied">>}

\* console.error(chalk.red(`Error: ${(error as Error).message}`))
errorLine(message) == <<"Error: ">> \o message

analyzeCommitsRethrow(message) == message

\* the catch block of analyzeCommits, for an Error instance
analyzeCommitsCatch(message) ==
  IF includesApiKey(message) THEN InvalidKeyMessage ELSE message

\* the outer catch of both handlers: print the message, process.exit(1)
commandCatch(message) ==
  /\ printed' = Append(printed, errorLine(message))
  /\ exitCode' = 1
  /\ cmdPc' = "exited"

\* The entry point (index.ts): the words of the command line are routed to a
\* handler, by the custom logic before parsing or by commander.

\* the characters of the words a command line is made of here
charsOf ==
  ("." :> <<".">>) @@ ("proj" :> <<"p", "r", "o", "j">>)
  @@ ("1" :> <<"1">>) @@ ("2" :> <<"2">>) @@ ("3" :> <<"3">>) @@ ("7" :> <<"7">>)
  @@ ("7d" :> <<"7", "d">>) @@ ("2d" :> <<"2", "d">>)
  @@ ("last" :> <<"l", "a", "s", "t">>)
  @@ ("analyze" :> <<"a", "n", "a", "l", "y", "z", "e">>)
  @@ ("changelog" :> <<"c", "h", "a", "n", "g", "e", "l", "o", "g">>)
  @@ ("--oc" :> <<"-", "-", "o", "c">>)
  @@ ("--output-context" :> <<"-", "-", "o", "u", "t", "p", "u", "t", "-",
                              "c", "o", "n", "t", "e", "x", "t">>)
  @@ ("-r" :> <<"-", "r">>) @@ ("--review" :> <<"-", "-", "r", "e", "v", "i", "e", "w">>)
  @@ ("-m" :> <<"-", "m">>) @@ ("--md" :> <<"-", "-", "m", "d">>)
  @@ ("-d" :> <<"-", "d">>) @@ ("--days" :> <<"-", "-", "d", "a", "y", "s">>)

digitValue(c) == CHOOSE n \in 0..9 : DigitChars[n + 1] = c

\* the longest prefix of decimal digits
digitsPrefix(s) ==
  LET k == CHOOSE k \in 0..Len(s) :
             /\ \A i \in 1..k : s[i] \in Digits
             /\ k = Len(s) \/ s[k + 1] \notin Digits
  IN  SubSeq(s, 1, k)

RECURSIVE valueOf(_)
valueOf(ds) ==
  IF ds = <<>> THEN 0
  ELSE valueOf(SubSeq(ds, 1, Len(ds) - 1)) * 10 + digitValue(ds[Len(ds)])

\* parseInt(word, 10) of a word without sign or leading blanks: the value of
\* its leading digits, NaN when it has none
parseInt(word) ==
  [nan |-> digitsPrefix(charsOf[word]) = <<>>, n |-> valueOf(digitsPrefix(charsOf[word]))]

\* parseInt(count, 10) || 1
numCommitsOf(count) ==
  IF parseInt(count).nan \/ parseInt(count).n = 0 THEN 1 ELSE parseInt(count).n

\* args.includes('--oc') || args.includes('--output-context')
hasOcFlag(args) == \E i \in 1..Len(args) : args[i] \in {"--oc", "--output-context"}

KnownWords == {"last", "changelog", "analyze", "help", "--help", "-h", "--version", "-V"}

\* the words of a subcommand that are its arguments: no option, and not the
\* value of -d, --days <days>
operands(rest) ==
  SelectSeq([i \in 1..Len(rest) |-> i],
            LAMBDA i : /\ ~startsWith(charsOf[rest[i]], <<"-">>)
                       /\ (i = 1 \/ rest[i - 1] \notin {"-d", "--days"}))

\* the optional argument of a subcommand, or the default of the handler
operandOr(rest, default) ==
  IF operands(rest) = <<>> THEN default ELSE rest[operands(rest)[1]]

\* the value of -d, --days <days>, "" when the option is not given
daysOf(rest) ==
  IF \E i \in 1..(Len(rest) - 1) : rest[i] \in {"-d", "--days"}
  THEN rest[(CHOOSE i \in 1..(Len(rest) - 1) : rest[i] \in {"-d", "--days"}) + 1]
  ELSE ""

\* the options object commander passes to the action of a subcommand
parsedOptions(rest, oc) ==
  [days |-> daysOf(rest),
   review |-> \E i \in 1..Len(rest) : rest[i] \in {"-r", "--review"},
   md |-> \E i \in 1..Len(rest) : rest[i] \in {"-m", "--md"},
   outputContext |-> oc,
   oc |-> FALSE]

Invocation(handler, argument, opts) ==
  [handler |-> handler, argument |-> argument, opts |-> opts]

\* program.parse(process.argv): the action of the subcommand named first.
\* --oc is declared on the program and on analyze, and commander is not among
\* the sources: the option given after analyze reaches the action of analyze,
\* or is taken as the option of the program.
programParse(args) ==
  LET rest == SubSeq(args, 2, Len(args))
  IN  IF args[1] = "last"
      THEN {Invocation("last", operandOr(rest, "1"), parsedOptions(rest, FALSE))}
      ELSE IF args[1] = "analyze"
      THEN {Invocation("analyze", operandOr(rest, "."), parsedOptions(rest, oc)) :
              oc \in IF hasOcFlag(rest) THEN BOOLEAN ELSE {FALSE}}
      ELSE {Invocation("other", "", NoOptions)}

\* the custom logic before parsing
route(args) ==
  IF Len(args) = 0 \/ (hasOcFlag(args) /\ Len(args) <= 1)
  THEN {Invocation("analyze", ".", [NoOptions EXCEPT !.oc = hasOcFlag(args)])}
  ELSE IF /\ Len(args) = 1
          /\ ~startsWith(charsOf[args[1]], <<"-">>)
          /\ args[1] \notin KnownWords
  THEN {Invocation("analyze", args[1], NoOptions)}
  ELSE programParse(args)

\* command lines
ArgvSamples ==
  { <<>>, <<"--oc">>, <<"--output-context">>, <<"proj">>,
    <<"analyze">>, <<"analyze", "--oc">>, <<"analyze", "proj", "--output-context", "-m">>,
    <<"analyze", "proj", "-r">>, <<"analyze", "--md">>,
    <<"last">>, <<"last", "3">>, <<"last", "7d">>, <<"last", "2d">>,
    <<"last", "--days", "7">>, <<"last", "-d", "2", "-r">>, <<"last", "2", "--review">>,
    <<"changelog">> }

\* which retrieval lastCommand calls, and with which number
retrievalOf(count, opts) ==
  IF opts.days # ""
  THEN [fn |-> "getCommitsFromLastDays", nan |-> parseInt(opts.days).nan,
        n |-> parseInt(opts.days).n]
  ELSE [fn |-> "getLastCommits", nan |-> FALSE, n |-> numCommitsOf(count)]

NoRetrieval == [fn |-> "none", nan |-> FALSE, n |-> 0]

InitCmdInputs ==
  /\ argv \in ArgvSamples
  /\ cmd = "none"
  /\ cmdOptions = NoOptions
  /\ countArg = ""
  /\ cmdPc = "routing"
  /\ cwd = "original"
  /\ raised = <<>>
  /\ printed = <<>>
  /\ written = {}
  /\ exitCode = -1
  /\ invoked = 0
  /\ retrieval = NoRetrieval

\* index.ts: the handler is called with its argument and its options
callHandler ==
  /\ cmdPc = "routing"
  /\ \E invocation \in route(argv) :
       /\ cmd' = invocation.handler
       /\ countArg' = invocation.argument
       /\ cmdOptions' = invocation.opts
       /\ cmdPc' = IF invocation.handler \in {"last", "analyze"} THEN "start"
                   ELSE "elsewhere"
  /\ UNCHANGED <<argv, cwd, raised, printed, written, exitCode, invoked, retrieval>>
  /\ UNCHANGED notCmd

\* lastCommand: getCommitsFromLastDays / getLastCommits resolves
lastGetCommits ==
  /\ cmd = "last"
  /\ cmdPc = "start"
  /\ retrieval' = retrievalOf(countArg, cmdOptions)
  /\ \E n \in 0..MaxCommits :
       /\ retrievalOf(countArg, cmdOptions).fn = "getLastCommits"
            => n <= retrievalOf(countArg, cmdOptions).n
       /\ IF n = 0
          THEN /\ printed' = Append(printed, NoCommitsFound)
               /\ cmdPc' = "returned"
               /\ exitCode' = 0
          ELSE /\ cmdPc' = "analyzing"
               /\ UNCHANGED <<printed, exitCode>>
  /\ UNCHANGED <<argv, countArg, cmd, cmdOptions, cwd, raised, written, invoked>>
  /\ UNCHANGED notCmd

\* lastCommand: the retrieval rejects
lastGetCommitsFails ==
  /\ cmd = "last"
  /\ cmdPc = "start"
  /\ retrieval' = retrievalOf(countArg, cmdOptions)
  /\ \E message \in {NotARepoMessage} \cup GitErrors : commandCatch(message)
  /\ UNCHANGED <<argv, countArg, cmd, cmdOptions, cwd, raised, written, invoked>>
  /\ UNCHANGED notCmd

\* analyzeCommits: getProjectInfo, getProjectTree, createAnalysisPrompt, then
\* the call of invoke_llm
analyzeCommitsPrompt ==
  /\ cmd = "last"
  /\ cmdPc = "analyzing"
  /\ cmdPc' = "awaiting"
  /\ invoked' = invoked + 1
  /\ UNCHANGED <<argv, countArg, cmd, cmdOptions, cwd, raised, printed, written, exitCode>>
  /\ UNCHANGED retrieval
  /\ UNCHANGED notCmd

\* analyzeCommand: fs.stat finds a directory, process.chdir(targetPath)
analyzeStat ==
  /\ cmd = "analyze"
  /\ cmdPc = "start"
  /\ cwd' = "target"
  /\ cmdPc' = "gathering"
  /\ UNCHANGED <<argv, countArg, cmd, cmdOptions, raised, printed, written, exitCode>>
  /\ UNCHANGED <<invoked, retrieval>>
  /\ UNCHANGED notCmd

\* analyzeCommand: fs.stat rejects or finds no directory
analyzeStatFails ==
  /\ cmd = "analyze"
  /\ cmdPc = "start"
  /\ commandCatch(CannotAccessPath)
  /\ UNCHANGED <<argv, countArg, cmd, cmdOptions, cwd, raised, written>>
  /\ UNCHANGED <<invoked, retrieval>>
  /\ UNCHANGED notCmd

\* analyzeCommand: getProjectInfo and getProjectTree, then either the --oc
\* branch (write README_context.md, print, return) or the call of invoke_llm
analyzeGather ==
  /\ cmd = "analyze"
  /\ cmdPc = "gathering"
  /\ IF cmdOptions.outputContext
     THEN /\ written' = written \cup {"README_context.md"}
          /\ printed' = printed \o <<<<"Repository context saved to: ",
                                        "README_context.md">>, <<"context">>>>
          /\ cwd' = "original"
          /\ cmdPc' = "returned"
          /\ exitCode' = 0
          /\ UNCHANGED invoked
     ELSE /\ cmdPc' = "awaiting"
          /\ invoked' = invoked + 1
          /\ UNCHANGED <<cwd, printed, written, exitCode>>
  /\ UNCHANGED <<argv, countArg, cmd, cmdOptions, raised, retrieval>>
  /\ UNCHANGED notCmd

\* analyzeCommand: getProjectInfo rejects; the finally block, then the outer
\* catch
analyzeGatherFails ==
  /\ cmd = "analyze"
  /\ cmdPc = "gathering"
  /\ \E message \in ProjectInfoErrors : commandCatch(message)
  /\ cwd' = "original"
  /\ UNCHANGED <<argv, countArg, cmd, cmdOptions, raised, written, invoked, retrieval>>
  /\ UNCHANGED notCmd

\* analyzeCommand, --oc branch: writing README_context.md rejects
analyzeWriteContextFails ==
  /\ cmd = "analyze"
  /\ cmdPc = "gathering"
  /\ cmdOptions.outputContext
  /\ \E message \in WriteErrors : commandCatch(message)
  /\ cwd' = "original"
  /\ UNCHANGED <<argv, countArg, cmd, cmdOptions, raised, written>>
  /\ UNCHANGED <<invoked, retrieval>>
  /\ UNCHANGED notCmd

\* lastCommand: invoke_llm resolves, analyzeCommits returns, the analysis is
\* printed
gatewayResolvesInLast ==
  /\ cmd = "last"
  /\ cmdPc = "awaiting"
  /\ \E text \in GatewayTexts :
       printed' = printed \o <<<<"Commit Analysis">>, text>>
  /\ cmdPc' = "returned"
  /\ exitCode' = 0
  /\ UNCHANGED <<argv, countArg, cmd, cmdOptions, cwd, raised, written>>
  /\ UNCHANGED <<invoked, retrieval>>
  /\ UNCHANGED notCmd

\* lastCommand: invoke_llm rejects; the catch of analyzeCommits, then the catch
\* of lastCommand
gatewayRejectsInLast ==
  /\ cmd = "last"
  /\ cmdPc = "awaiting"
  /\ \E message \in GatewayErrors :
       /\ raised' = message
       /\ commandCatch(analyzeCommitsCatch(message))
  /\ UNCHANGED <<argv, countArg, cmd, cmdOptions, cwd, written>>
  /\ UNCHANGED <<invoked, retrieval>>
  /\ UNCHANGED notCmd

\* analyzeCommand: invoke_llm resolves, README_cnav.md is written, the analysis
\* is printed, the finally block restores the working directory
gatewayResolvesInAnalyze ==
  /\ cmd = "analyze"
  /\ cmdPc = "awaiting"
  /\ \E text \in GatewayTexts :
       printed' = printed \o <<<<"Analysis saved to: ", "README_cnav.md">>, text>>
  /\ written' = written \cup {"README_cnav.md"}
  /\ cwd' = "original"
  /\ cmdPc' = "returned"
  /\ exitCode' = 0
  /\ UNCHANGED <<argv, countArg, cmd, cmdOptions, raised>>
  /\ UNCHANGED <<invoked, retrieval>>
  /\ UNCHANGED notCmd

\* analyzeCommand: invoke_llm resolves but writing README_cnav.md rejects
analyzeWriteFails ==
  /\ cmd = "analyze"
  /\ cmdPc = "awaiting"
  /\ \E message \in WriteErrors : commandCatch(message)
  /\ cwd' = "original"
  /\ UNCHANGED <<argv, countArg, cmd, cmdOptions, raised, written>>
  /\ UNCHANGED <<invoked, retrieval>>
  /\ UNCHANGED notCmd

gatewayRejectsInAnalyzeWithoutFinally ==
  /\ cmd = "analyze"
  /\ cmdPc = "awaiting"
  /\ \E message \in GatewayErrors :
       /\ raised' = message
       /\ commandCatch(message)
  /\ UNCHANGED <<argv, countArg, cmd, cmdOptions, written, cwd>>
  /\ UNCHANGED <<invoked, retrieval>>
  /\ UNCHANGED notCmd

\* analyzeCommand: invoke_llm rejects; the finally block, then the outer catch
gatewayRejectsInAnalyze ==
  /\ cmd = "analyze"
  /\ cmdPc = "awaiting"
  /\ \E message \in GatewayErrors :
       /\ raised' = message
       /\ commandCatch(message)
  /\ cwd' = "original"
  /\ UNCHANGED <<argv, countArg, cmd, cmdOptions, written>>
  /\ UNCHANGED <<invoked, retrieval>>
  /\ UNCHANGED notCmd

(***************************************************************************)
(* getProjectTree (services/git.ts).  The listing and the rendered tree    *)
(* are texts whose tokens are names, "/" and "\n"; a path component is a   *)
(* single name.                                                            *)
(***************************************************************************)
MaxTreeDepth == 3

DefaultMaxDepth == 3

\* EXCLUDED_DIR_NAMES (utils/utils.ts), as getExcludedDirectories() returns it
EXCLUDED_DIR_NAMES ==
  {"node_modules", "dist", "build", "coverage", ".next", ".nuxt", "out",
    "public", "static", "assets", "__pycache__", ".pytest_cache", "venv",
    "env", ".venv", ".env", "site-packages", ".python-version", ".pyenv",
    "wheels", "*.egg-info", "vendor", "pkg", "mod", "target", ".gradle",
    ".mvn", "maven-archiver", "maven-status", "surefire-reports",
    "cmake-build-*", "Debug", "Release", "x64", "x86", "Win32", ".vs",
    "CMakeFiles", "CMakeCache.txt", "bin", "obj", "packages", "TestResults",
    ".bundle", "vendor/bundle", ".composer", "migrations", ".git", ".svn",
    ".hg", ".bzr", ".vscode", ".idea", ".eclipse", ".settings", ".project",
    ".classpath", ".DS_Store", "Thumbs.db", ".terraform", ".vagrant",
    "terraform.tfstate*", ".serverless", ".cache", ".tmp", "tmp", "temp",
    ".temp", ".env.local", ".env.production", ".env.development",
    ".env.staging", ".env.test", "logs", ".logs", "*.log", ".npm", ".yarn",
    ".pnpm-store", "_site", ".jekyll-cache", ".docusaurus", "test-results",
    "e2e-results", "playwright-report", ".expo", "ios/build",
    "android/build", "android/.gradle" }

\* the text of one component of file.split('/')
partName(part) == IF part = <<>> THEN "" ELSE part[1]

\* file.split('/'), each part as its text
partsOf(file) == [i \in 1..Len(split(file, "/")) |-> partName(split(file, "/")[i])]

\* files.split('\n').filter(f => f.trim() !== '')
fileListOf(output) == SelectSeq(split(output, NL), LAMBDA f : trim(f) # <<>>)

\* parts.some(part => excludedDirectories.has(part))
someExcluded(parts) == \E i \in 1..Len(parts) : parts[i] \in EXCLUDED_DIR_NAMES

filterTopLevelOnly(fileList) ==
  SelectSeq(fileList, LAMBDA file : partsOf(file)[1] \notin EXCLUDED_DIR_NAMES)

\* fileList.filter(file => !parts.some(...))
filterExcluded(fileList) ==
  SelectSeq(fileList, LAMBDA file : ~someExcluded(partsOf(file)))

IsPrefixOf(p, q) == Len(p) <= Len(q) /\ SubSeq(q, 1, Len(p)) = p

\* current[part] = null: the entry becomes a file, whatever hung below it is lost
setFile(nodes, path) ==
  {n \in nodes : ~IsPrefixOf(path, n.path)} \cup {[path |-> path, dir |-> FALSE]}

\* if (!current[part]) current[part] = {}: an absent or file entry becomes an
\* empty directory, a directory is kept
ensureDir(nodes, path) ==
  IF [path |-> path, dir |-> TRUE] \in nodes THEN nodes
  ELSE {n \in nodes : n.path # path} \cup {[path |-> path, dir |-> TRUE]}

\* the inner loop for (let i = 0; i < depthToProcess; i++), from component i on
RECURSIVE insertFrom(_, _, _, _)
insertFrom(nodes, parts, i, depthToProcess) ==
  IF i > depthToProcess THEN nodes
  ELSE IF i = Len(parts) THEN setFile(nodes, SubSeq(parts, 1, i))
  ELSE insertFrom(ensureDir(nodes, SubSeq(parts, 1, i)), parts, i + 1, depthToProcess)

insertFileUnbounded(nodes, parts, depth) == insertFrom(nodes, parts, 1, Len(parts))

\* the body of for (const file of treeFiles)
insertFile(nodes, parts, depth) == insertFrom(nodes, parts, 1, MathMin(Len(parts), depth))

\* the names the listings use, in the order of String comparison by code unit
NameOrder ==
  <<"", "Build", "README.md", "a", "a.ts", "app.m", "b", "b.ts", "build", "c", "d",
    "dist", "dist.ts", "e.ts", "index.js", "index.ts", "ios", "lib", "node_modules",
    "out.js", "package.json", "src", "utils", "x">>

rank(name) == CHOOSE i \in 1..Len(NameOrder) : NameOrder[i] = name

RECURSIVE sortKeysDescending(_)
sortKeysDescending(names) ==
  IF names = {} THEN <<>>
  ELSE LET first == CHOOSE x \in names : \A y \in names : rank(x) >= rank(y)
       IN  <<first>> \o sortKeysDescending(names \ {first})

\* Array.prototype.sort() of a set of keys
RECURSIVE sortKeys(_)
sortKeys(names) ==
  IF names = {} THEN <<>>
  ELSE LET first == CHOOSE x \in names : \A y \in names : rank(x) <= rank(y)
       IN  <<first>> \o sortKeys(names \ {first})

\* Object.keys(node) of the node at path
keysOf(nodes, path) ==
  {n.path[Len(n.path)] : n \in {m \in nodes : Len(m.path) = Len(path) + 1
                                              /\ IsPrefixOf(path, m.path)}}

\* the connectors and the prefixes of children, in ASCII: a corner for the
\* last child, a tee for the others, a bar before the children of the others
LastConnector == "+-- "

MidConnector == "|-- "

LastIndent == "    "

MidIndent == "|   "

\* formatTree(node, prefix), the loop from key i on
RECURSIVE formatKeys(_, _, _, _, _)
formatKeys(nodes, path, prefix, keys, i) ==
  IF i > Len(keys) THEN <<>>
  ELSE LET key == keys[i]
           isLast == i = Len(keys)
           child == path \o <<key>>
           line == prefix \o <<IF isLast THEN LastConnector ELSE MidConnector, key, NL>>
           below == IF [path |-> child, dir |-> TRUE] \in nodes
                    THEN formatKeys(nodes, child,
                                    prefix \o <<IF isLast THEN LastIndent ELSE MidIndent>>,
                                    sortKeys(keysOf(nodes, child)), 1)
                    ELSE <<>>
       IN  line \o below \o formatKeys(nodes, path, prefix, keys, i + 1)

formatTree(nodes) == formatKeys(nodes, <<>>, <<>>, sortKeys(keysOf(nodes, <<>>)), 1)

FailedToGenerateTree == "Failed to generate tree: "

\* outputs of git ls-files
ListingSamples ==
  { <<"README.md", NL, "src", "/", "index.ts", NL, "src", "/", "utils", "/", "a.ts", NL>>,
    <<"node_modules", "/", "x", "/", "index.js", NL, "src", "/", "index.ts", NL>>,
    <<"package.json", NL, "src", "/", "a.ts", NL, "src", "/", "build", "/", "out.js", NL>>,
    <<"a", "/", "b", "/", "c", "/", "d", "/", "e.ts", NL, "a", "/", "b.ts", NL>>,
    <<>>,
    <<"dist", NL, "lib", "/", "dist.ts", NL, "Build", "/", "a.ts", NL>>,
    <<"ios", "/", "build", "/", "app.m", NL, "ios", "/", "app.m", NL>>,
    <<"b.ts", NL, NL, "a.ts", NL>> }

InitTreeInputs ==
  /\ lsFiles \in ListingSamples
  /\ maxDepth \in 1..MaxTreeDepth
  /\ treePc = "start"
  /\ treeFiles = <<>>
  /\ fileIdx = 0
  /\ tree = {}
  /\ treeResult = <<>>

\* await git.raw(['ls-files']) resolves; the list is split and filtered
lsFilesResolves ==
  /\ treePc = "start"
  /\ treeFiles' = filterExcluded(fileListOf(lsFiles))
  /\ fileIdx' = 1
  /\ treePc' = "building"
  /\ UNCHANGED <<lsFiles, maxDepth, tree, treeResult>>
  /\ UNCHANGED notTree

\* await git.raw(['ls-files']) rejects; the catch returns the failure text
lsFilesRejects ==
  /\ treePc = "start"
  /\ \E message \in GitErrors : treeResult' = <<FailedToGenerateTree>> \o message
  /\ treePc' = "done"
  /\ UNCHANGED <<lsFiles, maxDepth, treeFiles, fileIdx, tree>>
  /\ UNCHANGED notTree

\* one round of for (const file of treeFiles)
insertNextFile ==
  /\ treePc = "building"
  /\ fileIdx <= Len(treeFiles)
  /\ tree' = insertFile(tree, partsOf(treeFiles[fileIdx]), maxDepth)
  /\ fileIdx' = fileIdx + 1
  /\ UNCHANGED <<lsFiles, maxDepth, treePc, treeFiles, treeResult>>
  /\ UNCHANGED notTree

\* return formatTree(tree)
returnFormatTree ==
  /\ treePc = "building"
  /\ fileIdx > Len(treeFiles)
  /\ treeResult' = formatTree(tree)
  /\ treePc' = "done"
  /\ UNCHANGED <<lsFiles, maxDepth, treeFiles, fileIdx, tree>>
  /\ UNCHANGED notTree

(***************************************************************************)
(* getProjectInfo (services/git.ts): manifest discovery over the registry  *)
(* of descriptors, the README mapping, the remotes                         *)
(***************************************************************************)
configFiles ==
  <<
    [path |-> "package.json", category |-> "nodejs", type |-> "json",
     description |-> "Node.js package configuration"],
    [path |-> "package-lock.json", category |-> "nodejs", type |-> "json",
     description |-> "NPM lock file"],
    [path |-> "yarn.lock", category |-> "nodejs", type |-> "text",
     description |-> "Yarn lock file"],
    [path |-> "pnpm-lock.yaml", category |-> "nodejs", type |-> "text",
     description |-> "PNPM lock file"],
    [path |-> ".nvmrc", category |-> "nodejs", type |-> "text",
     description |-> "Node version manager config"],
    [path |-> "tsconfig.json", category |-> "nodejs", type |-> "json",
     description |-> "TypeScript configuration"],
    [path |-> "vite.config.js", category |-> "nodejs", type |-> "text",
     description |-> "Vite configuration"],
    [path |-> "vite.config.ts", category |-> "nodejs", type |-> "text",
     description |-> "Vite configuration (TypeScript)"],
    [path |-> "webpack.config.js", category |-> "nodejs", type |-> "text",
     description |-> "Webpack configuration"],
    [path |-> "next.config.js", category |-> "nodejs", type |-> "text",
     description |-> "Next.js configuration"],
    [path |-> "nuxt.config.js", category |-> "nodejs", type |-> "text",
     description |-> "Nuxt.js configuration"],
    [path |-> "tailwind.config.js", category |-> "nodejs", type |-> "text",
     description |-> "Tailwind CSS configuration"],
    [path |-> "pyproject.toml", category |-> "python", type |-> "text",
     description |-> "Python project configuration"],
    [path |-> "requirements.txt", category |-> "python", type |-> "text",
     description |-> "Python dependencies"],
    [path |-> "setup.py", category |-> "python", type |-> "text",
     description |-> "Python package setup"],
    [path |-> "setup.cfg", category |-> "python", type |-> "text",
     description |-> "Python setup configuration"],
    [path |-> "Pipfile", category |-> "python", type |-> "text",
     description |-> "Pipenv configuration"],
    [path |-> "poetry.lock", category |-> "python", type |-> "text",
     description |-> "Poetry lock file"],
    [path |-> "environment.yml", category |-> "python", type |-> "text",
     description |-> "Conda environment"],
    [path |-> "tox.ini", category |-> "python", type |-> "text",
     description |-> "Tox testing configuration"],
    [path |-> "pytest.ini", category |-> "python", type |-> "text",
     description |-> "Pytest configuration"],
    [path |-> "pom.xml", category |-> "java", type |-> "text",
     description |-> "Maven project configuration"],
    [path |-> "build.gradle", category |-> "java", type |-> "text",
     description |-> "Gradle build script"],
    [path |-> "gradle.properties", category |-> "java", type |-> "text",
     description |-> "Gradle properties"],
    [path |-> "settings.gradle", category |-> "java", type |-> "text",
     description |-> "Gradle settings"],
    [path |-> "global.json", category |-> "dotnet", type |-> "json",
     description |-> ".NET global configuration"],
    [path |-> "Directory.Build.props", category |-> "dotnet", type |-> "text",
     description |-> "MSBuild properties"],
    [path |-> "go.mod", category |-> "go", type |-> "text",
     description |-> "Go module definition"],
    [path |-> "go.sum", category |-> "go", type |-> "text",
     description |-> "Go module checksums"],
    [path |-> "Cargo.toml", category |-> "rust", type |-> "text",
     description |-> "Rust package configuration"],
    [path |-> "Cargo.lock", category |-> "rust", type |-> "text",
     description |-> "Rust lock file"],
    [path |-> "Gemfile", category |-> "ruby", type |-> "text",
     description |-> "Ruby gem dependencies"],
    [path |-> "Gemfile.lock", category |-> "ruby", type |-> "text",
     description |-> "Ruby gem lock file"],
    [path |-> "composer.json", category |-> "php", type |-> "json",
     description |-> "PHP Composer configuration"],
    [path |-> "composer.lock", category |-> "php", type |-> "json",
     description |-> "PHP Composer lock file"],
    [path |-> "Dockerfile", category |-> "docker", type |-> "text",
     description |-> "Docker container definition"],
    [path |-> "docker-compose.yml", category |-> "docker", type |-> "text",
     description |-> "Docker Compose configuration"],
    [path |-> "docker-compose.yaml", category |-> "docker", type |-> "text",
     description |-> "Docker Compose configuration"],
    [path |-> "Makefile", category |-> "build", type |-> "text",
     description |-> "Make build configuration"],
    [path |-> "CMakeLists.txt", category |-> "build", type |-> "text",
     description |-> "CMake build configuration"],
    [path |-> ".eslintrc.json", category |-> "linting", type |-> "json",
     description |-> "ESLint configuration"],
    [path |-> ".eslintrc.js", category |-> "linting", type |-> "text",
     description |-> "ESLint configuration"],
    [path |-> ".prettierrc", category |-> "linting", type |-> "json",
     description |-> "Prettier configuration"],
    [path |-> ".prettierrc.json", category |-> "linting", type |-> "json",
     description |-> "Prettier configuration"],
    [path |-> ".editorconfig", category |-> "linting", type |-> "text",
     description |-> "Editor configuration"],
    [path |-> ".env", category |-> "env", type |-> "text",
     description |-> "Environment variables"],
    [path |-> ".env.example", category |-> "env", type |-> "text",
     description |-> "Environment variables example"],
    [path |-> ".github/workflows", category |-> "cicd", type |-> "directory",
     description |-> "GitHub Actions workflows"],
    [path |-> ".gitlab-ci.yml", category |-> "cicd", type |-> "text",
     description |-> "GitLab CI configuration"],
    [path |-> ".travis.yml", category |-> "cicd", type |-> "text",
     description |-> "Travis CI configuration"],
    [path |-> "Jenkinsfile", category |-> "cicd", type |-> "text",
     description |-> "Jenkins pipeline configuration"] >>

RegistryPaths == {configFiles[i].path : i \in 1..Len(configFiles)}

UnableToRead == "Unable to read file content"

\* what can be at a path: nothing, a file, a directory; whether reading it
\* (readFile, readdir) succeeds; for a file its text, whether JSON.parse takes
\* it and the parsed value; for a directory its entries
Absent ==
  [kind |-> "absent", readable |-> FALSE, parsable |-> FALSE, content |-> <<>>,
   json |-> <<>>, entries |-> <<>>]

File(text) ==
  [kind |-> "file", readable |-> TRUE, parsable |-> FALSE, content |-> text,
   json |-> <<>>, entries |-> <<>>]

JsonFile(text, value) ==
  [kind |-> "file", readable |-> TRUE, parsable |-> TRUE, content |-> text,
   json |-> value, entries |-> <<>>]

UnreadableFile ==
  [kind |-> "file", readable |-> FALSE, parsable |-> FALSE, content |-> <<>>,
   json |-> <<>>, entries |-> <<>>]

Directory(names) ==
  [kind |-> "dir", readable |-> TRUE, parsable |-> FALSE, content |-> <<>>,
   json |-> <<>>, entries |-> names]

UnreadableDirectory ==
  [kind |-> "dir", readable |-> FALSE, parsable |-> FALSE, content |-> <<>>,
   json |-> <<>>, entries |-> <<>>]

\* f.endsWith('.yml') || f.endsWith('.yaml')
isWorkflowFile(f) == endsWith(f, <<".", "y", "m", "l">>) \/ endsWith(f, <<".", "y", "a", "m", "l">>)

Skipped == [kind |-> "skip", entry |-> <<>>]

Recorded(entry) == [kind |-> "record", entry |-> entry]

Rethrown(message) == [kind |-> "throw", entry |-> message]

\* fs.readJson / fs.readFile resolves
readSucceeds(descriptor, file) ==
  /\ file.kind = "file"
  /\ file.readable
  /\ descriptor.type = "json" => file.parsable

examineRethrowing(descriptor, file) ==
  IF descriptor.type = "directory"
  THEN IF file.kind = "dir" /\ file.readable /\ Len(file.entries) > 0
       THEN Recorded([description |-> descriptor.description, type |-> "directory",
                      files |-> SelectSeq(file.entries, isWorkflowFile)])
       ELSE Skipped
  ELSE IF file.kind = "absent" THEN Skipped
  ELSE IF readSucceeds(descriptor, file)
       THEN Recorded([description |-> descriptor.description, type |-> descriptor.type,
                      content |-> IF descriptor.type = "json" THEN file.json
                                  ELSE file.content])
       ELSE Rethrown(<<"EACCES: permission denied, open">>)

\* the body of for (const config of configFiles): what the round does with
\* the descriptor, given what is at its path
examine(descriptor, file) ==
  IF descriptor.type = "directory"
  THEN IF file.kind = "dir" /\ file.readable /\ Len(file.entries) > 0
       THEN Recorded([description |-> descriptor.description, type |-> "directory",
                      files |-> SelectSeq(file.entries, isWorkflowFile)])
       ELSE Skipped
  ELSE IF file.kind = "absent" THEN Skipped
  ELSE IF readSucceeds(descriptor, file)
       THEN Recorded([description |-> descriptor.description, type |-> descriptor.type,
                      content |-> IF descriptor.type = "json" THEN file.json
                                  ELSE file.content])
       ELSE Recorded([description |-> descriptor.description, type |-> descriptor.type,
                      exists |-> TRUE, error |-> UnableToRead])

\* originUrl.match(/\/([^\/]+?)(\.git)?$/): the part after the last "/", without
\* a closing ".git"; <<>> when there is no match
repoNameMatch(url) ==
  LET slashes == {i \in 1..Len(url) : url[i] = "/"}
  IN  IF slashes = {} \/ SetMax(slashes) = Len(url) THEN <<>>
      ELSE LET tail == SubSeq(url, SetMax(slashes) + 1, Len(url))
           IN  IF Len(tail) > 1 /\ tail[Len(tail)] = ".git"
               THEN SubSeq(tail, 1, Len(tail) - 1)
               ELSE tail

\* remotes.find(remote => remote.name === 'origin')?.refs?.fetch || ''
originUrl(list) ==
  LET origins == {i \in 1..Len(list) : list[i].name = "origin"}
  IN  IF origins = {} THEN <<>> ELSE list[SetMin(origins)].fetch

PackageJsonStates ==
  { Absent,
    JsonFile(<<"{\"name\": \"cnav\"}">>, [name |-> "cnav"]),
    File(<<"{\"name\": ">>),
    UnreadableFile }

RequirementsStates == {Absent, File(<<"requests", NL, "flask", NL>>), UnreadableFile}

WorkflowsStates ==
  { Absent,
    Directory(<<>>),
    Directory(<<<<"c", "i", ".", "y", "m", "l">>>>),
    Directory(<<<<"n", "o", "t", "e", "s", ".", "t", "x", "t">>>>),
    Directory(<<<<"c", "i", ".", "y", "m", "l">>,
                <<"n", "o", "t", "e", "s", ".", "t", "x", "t">>,
                <<"b", ".", "y", "a", "m", "l">>>>),
    UnreadableDirectory,
    File(<<"not a directory">>) }

JenkinsfileStates == {Absent, File(<<"pipeline {}">>), Directory(<<>>)}

\* what findReadmeFiles() resolves to
ReadmeMappings == {<<>>, <<"README.md">> :> <<"#", " ", "c", "n", "a", "v">>}

\* what git.getRemotes(true) settles to
RemotesOutcomes ==
  { [kind |-> "rejected", list |-> <<>>],
    [kind |-> "ok", list |-> <<>>],
    [kind |-> "ok",
     list |-> <<[name |-> "origin",
                 fetch |-> <<"https:", "/", "/", "github.com", "/", "ngduc", "/",
                             "cnav", ".git">>]>>],
    [kind |-> "ok",
     list |-> <<[name |-> "upstream", fetch |-> <<"git@host:team", "/", "tool">>]>>] }

InitInfoInputs ==
  /\ \E p \in PackageJsonStates, r \in RequirementsStates, w \in WorkflowsStates,
        j \in JenkinsfileStates :
       disk = [path \in RegistryPaths |->
                 CASE path = "package.json" -> p
                   [] path = "requirements.txt" -> r
                   [] path = ".github/workflows" -> w
                   [] path = "Jenkinsfile" -> j
                   [] OTHER -> Absent]
  /\ infoPc = "start"
  /\ cfgIdx = 1
  /\ examined = <<>>
  /\ foundConfigs = <<>>
  /\ projectInfo = <<>>
  /\ infoError = <<>>

\* one round of for (const config of configFiles)
examineNext ==
  /\ infoPc = "start"
  /\ cfgIdx <= Len(configFiles)
  /\ LET descriptor == configFiles[cfgIdx]
         step == examine(descriptor, disk[descriptor.path])
     IN  /\ examined' = Append(examined, descriptor.path)
         /\ IF step.kind = "throw"
            THEN /\ infoError' = <<"Failed to get project info: ">> \o step.entry
                 /\ infoPc' = "failed"
                 /\ UNCHANGED <<cfgIdx, foundConfigs>>
            ELSE /\ foundConfigs' =
                      IF step.kind = "record"
                      THEN (<<descriptor.category, descriptor.path>> :> step.entry)
                           @@ foundConfigs
                      ELSE foundConfigs
                 /\ cfgIdx' = cfgIdx + 1
                 /\ UNCHANGED <<infoPc, infoError>>
  /\ UNCHANGED <<disk, projectInfo>>
  /\ UNCHANGED notInfo

\* after the loop: configFiles, the packageJson alias, README, remotes and
\* repositoryName are set and projectInfo is returned
returnProjectInfo ==
  /\ infoPc = "start"
  /\ cfgIdx > Len(configFiles)
  /\ \E readmeFiles \in ReadmeMappings, remotes \in RemotesOutcomes :
       LET key == <<"nodejs", "package.json">>
           hasContent == /\ key \in DOMAIN foundConfigs
                         /\ "content" \in DOMAIN foundConfigs[key]
           name == repoNameMatch(originUrl(remotes.list))
       IN  projectInfo' =
             (IF DOMAIN foundConfigs # {} THEN "configFiles" :> foundConfigs ELSE <<>>)
             @@ (IF hasContent THEN "packageJson" :> foundConfigs[key].content ELSE <<>>)
             @@ (IF DOMAIN readmeFiles # {} THEN "README" :> readmeFiles ELSE <<>>)
             @@ (IF remotes.kind = "ok" THEN "remotes" :> remotes.list ELSE <<>>)
             @@ (IF remotes.kind = "ok" /\ name # <<>>
                 THEN "repositoryName" :> name ELSE <<>>)
  /\ infoPc' = "done"
  /\ UNCHANGED <<disk, cfgIdx, examined, foundConfigs, infoError>>
  /\ UNCHANGED notInfo

(***************************************************************************)
(* findReadmeFiles (utils/utils.ts).  A relative path is the sequence of   *)
(* its segments.                                                           *)
(***************************************************************************)
GlobMaxDepth == 1

ReadmeName == "README.md"

\* the candidate paths below baseDir
CandidatePaths ==
  { <<"README.md">>, <<"docs", "README.md">>, <<"node_modules", "README.md">>,
    <<"docs", "api", "README.md">>, <<"docs", "NOTES.md">> }

NoDoc == [exists |-> FALSE, readable |-> FALSE, content |-> <<>>]

Doc(text) == [exists |-> TRUE, readable |-> TRUE, content |-> text]

UnreadableDoc == [exists |-> TRUE, readable |-> FALSE, content |-> <<>>]

\* the content of the file at a path, its own text so that contents differ
textAt(path) == <<"#", " ">> \o path

\* the ignore patterns **/<dir>/** : a directory segment of the path is excluded
ignored(path) ==
  \E i \in 1..(Len(path) - 1) : path[i] \in EXCLUDED_DIR_NAMES

globWithoutIgnore(present, levels) ==
  {path \in present : path[Len(path)] = ReadmeName /\ Len(path) - 1 <= levels}

\* glob('**/README.md', {cwd, maxDepth, ignore, absolute: false}) over the
\* files below cwd; levels is the number of directory levels below cwd that
\* glob walks for the given maxDepth
glob(present, levels) ==
  {path \in present : /\ path[Len(path)] = ReadmeName
                    /\ Len(path) - 1 <= levels
                    /\ ~ignored(path)}

\* the order glob lists its matches in
RECURSIVE listOf(_)
listOf(paths) ==
  IF paths = {} THEN <<>>
  ELSE LET first == CHOOSE p \in paths : \A q \in paths : Len(p) <= Len(q)
       IN  <<first>> \o listOf(paths \ {first})

readAbortingOnFailure(mapping, path, file) ==
  IF file.readable
  THEN [result |-> (path :> file.content) @@ mapping, warned |-> FALSE, goOn |-> TRUE]
  ELSE [result |-> mapping, warned |-> TRUE, goOn |-> FALSE]

\* the body of for (const filePath of readmeFiles): try readFile, catch warn
readOne(mapping, path, file) ==
  IF file.readable
  THEN [result |-> (path :> file.content) @@ mapping, warned |-> FALSE, goOn |-> TRUE]
  ELSE [result |-> mapping, warned |-> TRUE, goOn |-> TRUE]

InitReadmeInputs ==
  /\ baseDirExists \in BOOLEAN
  /\ docs \in [CandidatePaths -> {"absent", "readable", "unreadable"}]
  /\ ~baseDirExists => \A p \in CandidatePaths : docs[p] = "absent"
  /\ readmePc = "start"
  /\ found = <<>>
  /\ readIdx = 0
  /\ readmeResult = <<>>
  /\ warnings = {}

\* what is at a candidate path
docAt(path) ==
  CASE docs[path] = "readable" -> Doc(textAt(path))
    [] docs[path] = "unreadable" -> UnreadableDoc
    [] OTHER -> NoDoc

\* await glob(...) resolves
globResolves ==
  /\ readmePc = "start"
  /\ \E levels \in {GlobMaxDepth - 1, GlobMaxDepth} :
       found' = listOf(glob({p \in CandidatePaths : docs[p] # "absent"}, levels))
  /\ readIdx' = 1
  /\ readmePc' = "reading"
  /\ UNCHANGED <<baseDirExists, docs, readmeResult, warnings>>
  /\ UNCHANGED notReadme

\* await glob(...) rejects: the outer catch logs and returns the empty result
globRejects ==
  /\ readmePc = "start"
  /\ ~baseDirExists
  /\ readmePc' = "done"
  /\ UNCHANGED <<baseDirExists, docs, found, readIdx, readmeResult, warnings>>
  /\ UNCHANGED notReadme

\* one round of for (const filePath of readmeFiles)
readNext ==
  /\ readmePc = "reading"
  /\ readIdx <= Len(found)
  /\ LET path == found[readIdx]
         step == readOne(readmeResult, path, docAt(path))
     IN  /\ readmeResult' = step.result
         /\ warnings' = IF step.warned THEN warnings \cup {path} ELSE warnings
         /\ IF step.goOn
            THEN readIdx' = readIdx + 1 /\ UNCHANGED readmePc
            ELSE readmePc' = "done" /\ UNCHANGED readIdx
  /\ UNCHANGED <<baseDirExists, docs, found>>
  /\ UNCHANGED notReadme

\* return result
returnReadmeFiles ==
  /\ readmePc = "reading"
  /\ readIdx > Len(found)
  /\ readmePc' = "done"
  /\ UNCHANGED <<baseDirExists, docs, found, readIdx, readmeResult, warnings>>
  /\ UNCHANGED notReadme

(***************************************************************************)
(* Prompt assembly: createAnalysisPrompt (services/analysis.ts) and        *)
(* generateRepositoryContext (commands/analyze.ts).  A text is a sequence  *)
(* of tokens: a fixed literal of the source is one token (a literal of     *)
(* several lines is the token of its first line), "\n" is a token of its   *)
(* own where the text is split or counted by lines, and a file content is  *)
(* the sequence of its characters.                                         *)
(***************************************************************************)
AnalysisReadmeBudget == 2000

ContextReadmeBudget == 3000

DiffLineBudget == 5000

ReadmeTruncated == <<"...", NL, "[README truncated for brevity]">>

DiffTruncated == "... (truncated)"

\* the code fence of three backquotes, written with tildes
Fence == "~~~"

SplitTypeError == <<"Cannot read properties of undefined (reading 'split')">>

Built(text) == [kind |-> "ok", text |-> text, message |-> <<>>]

Thrown(message) == [kind |-> "err", text |-> <<>>, message |-> message]

NotBuilt == [kind |-> "pending", text |-> <<>>, message |-> <<>>]

\* object[key] || fallback, for a text that may be missing or empty
orElse(object, key, fallback) ==
  IF key \in DOMAIN object /\ object[key] # "" THEN object[key] ELSE fallback

\* names.join(', ')
joinNames(names) == join([i \in 1..Len(names) |-> <<names[i]>>], ", ")

\* Object.keys(packageJson[key] || {}), the keys in their order
keysAt(packageJson, key) ==
  IF key \in DOMAIN packageJson THEN packageJson[key] ELSE <<>>

\* Object.keys(packageJson[key] || {}).join(', ') || 'None'
keysOrNone(packageJson, key) ==
  IF joinNames(keysAt(packageJson, key)) = <<>> THEN <<"None">>
  ELSE joinNames(keysAt(packageJson, key))

\* the packageJson lines of createAnalysisPrompt
analysisPackageLines(info) ==
  IF "packageJson" \notin DOMAIN info THEN <<>>
  ELSE <<"Project name: ", orElse(info["packageJson"], "name", "Unknown"), NL,
         "Description: ", orElse(info["packageJson"], "description", "N/A"), NL,
         "Dependencies: ">> \o keysOrNone(info["packageJson"], "dependencies") \o <<NL>>

\* the packageJson lines of generateRepositoryContext
contextPackageLines(info) ==
  IF "packageJson" \notin DOMAIN info THEN <<>>
  ELSE <<"Project name: ", orElse(info["packageJson"], "name", "Unknown"), NL,
         "Description: ", orElse(info["packageJson"], "description", "N/A"), NL,
         "Version: ", orElse(info["packageJson"], "version", "N/A"), NL,
         "Dependencies: ">> \o keysOrNone(info["packageJson"], "dependencies")
       \o <<NL, "Dev Dependencies: ">>
       \o keysOrNone(info["packageJson"], "devDependencies") \o <<NL>>
       \o (IF "scripts" \in DOMAIN info["packageJson"]
           THEN <<"Scripts: ">> \o joinNames(info["packageJson"]["scripts"]) \o <<NL>>
           ELSE <<>>)

\* the registry positions whose entry was recorded
recordedAt(configs) ==
  SelectSeq([i \in 1..Len(configFiles) |-> i],
            LAMBDA i : <<configFiles[i].category, configFiles[i].path>> \in DOMAIN configs)

\* Object.keys(configFiles): the categories, in the order they were first recorded
technologies(configs) ==
  LET at == recordedAt(configs)
      firstOf == SelectSeq([k \in 1..Len(at) |-> k],
                           LAMBDA k : \A j \in 1..(k - 1) :
                             configFiles[at[j]].category # configFiles[at[k]].category)
  IN  [k \in 1..Len(firstOf) |-> configFiles[at[firstOf[k]]].category]

\* Object.keys(configFiles[category]): the recorded paths of one category
pathsOf(configs, category) ==
  LET at == SelectSeq(recordedAt(configs), LAMBDA i : configFiles[i].category = category)
  IN  [k \in 1..Len(at) |-> configFiles[at[k]].path]

\* configFiles[category] is set
hasCategory(configs, category) == \E key \in DOMAIN configs : key[1] = category

\* requirements.split('\n').filter(r => r.trim() !== '' && !r.startsWith('#'))
depsOf(requirements) ==
  SelectSeq(split(requirements, NL),
            LAMBDA r : trim(r) # <<>> /\ ~startsWith(r, <<"#">>))

\* deps.slice(0, n).join(', ') + (deps.length > n ? ' and more...' : '')
depsLine(deps, n) ==
  join(SubSeq(deps, 1, MathMin(Len(deps), n)), ", ")
  \o (IF Len(deps) > n THEN <<" and more...">> ELSE <<>>)

\* whether configFiles.python['requirements.txt'].content.split throws
requirementsUnreadable(info) ==
  /\ "configFiles" \in DOMAIN info
  /\ <<"python", "requirements.txt">> \in DOMAIN info["configFiles"]
  /\ "content" \notin DOMAIN info["configFiles"][<<"python", "requirements.txt">>]

\* the python lines of both functions; n is 8 or 10, pipfile says whether the
\* Pipfile line exists in the function
pythonLines(configs, n, pipfile) ==
  IF ~hasCategory(configs, "python") THEN <<>>
  ELSE (IF <<"python", "pyproject.toml">> \in DOMAIN configs
        THEN <<"Python project with pyproject.toml configuration", NL>> ELSE <<>>)
    \o (IF <<"python", "requirements.txt">> \in DOMAIN configs
        THEN <<"Python requirements: ">>
             \o depsLine(depsOf(configs[<<"python", "requirements.txt">>].content), n)
             \o <<NL>>
        ELSE <<>>)
    \o (IF pipfile /\ <<"python", "Pipfile">> \in DOMAIN configs
        THEN <<"Python project using Pipenv for dependency management", NL>>
        ELSE <<>>)

\* the configFiles lines of createAnalysisPrompt
analysisConfigLines(info) ==
  IF "configFiles" \notin DOMAIN info THEN <<>>
  ELSE LET configs == info["configFiles"]
       IN  (IF Len(technologies(configs)) > 0
            THEN <<"Technologies detected: ">> \o joinNames(technologies(configs)) \o <<NL>>
            ELSE <<>>)
        \o pythonLines(configs, 8, FALSE)
        \o (IF hasCategory(configs, "docker") THEN <<"Containerized with Docker", NL>>
            ELSE <<>>)
        \o (IF hasCategory(configs, "cicd") THEN <<"CI/CD pipeline configured", NL>>
            ELSE <<>>)

\* the configFiles lines of generateRepositoryContext
contextConfigLines(info) ==
  IF "configFiles" \notin DOMAIN info THEN <<>>
  ELSE LET configs == info["configFiles"]
       IN  (IF Len(technologies(configs)) > 0
            THEN <<"Technologies detected: ">> \o joinNames(technologies(configs)) \o <<NL>>
            ELSE <<>>)
        \o pythonLines(configs, 10, TRUE)
        \o (IF hasCategory(configs, "docker") THEN <<"Docker configuration detected", NL>>
            ELSE <<>>)
        \o (IF hasCategory(configs, "cicd")
            THEN <<"CI/CD configured: ">> \o joinNames(pathsOf(configs, "cicd")) \o <<NL>>
            ELSE <<>>)
        \o (IF hasCategory(configs, "linting")
            THEN <<"Code quality tools: ">> \o joinNames(pathsOf(configs, "linting"))
                 \o <<NL>>
            ELSE <<>>)

truncateAtOrAbove(content, budget) ==
  IF Len(content) >= budget
  THEN SubSeq(content, 1, budget) \o ReadmeTruncated
  ELSE content

\* content.length > budget ? content.substring(0, budget) + marker : content
truncatedContent(content, budget) ==
  IF Len(content) > budget
  THEN SubSeq(content, 1, budget) \o ReadmeTruncated
  ELSE content

\* "### ${path}\n" fence "\n${truncatedContent}\n" fence "\n\n"
readmeEntry(path, content, budget) ==
  <<"### ">> \o join([i \in 1..Len(path) |-> <<path[i]>>], "/") \o <<NL, Fence, NL>>
  \o truncatedContent(content, budget) \o <<NL, Fence, NL, NL>>

\* Object.entries(projectInfo.README).forEach(...), from entry i on
RECURSIVE readmeEntries(_, _, _, _)
readmeEntries(readme, paths, i, budget) ==
  IF i > Len(paths) THEN <<>>
  ELSE readmeEntry(paths[i], readme[paths[i]], budget)
       \o readmeEntries(readme, paths, i + 1, budget)

\* the documentation block of both functions
documentationBlock(info, budget) ==
  IF "README" \in DOMAIN info /\ DOMAIN info["README"] # {}
  THEN <<NL, "## Project Documentation", NL>>
       \o readmeEntries(info["README"], listOf(DOMAIN info["README"]), 1, budget)
  ELSE <<>>

\* "## Project Structure\n" fence "\n${projectTree}" fence "\n\n"
structureBlock(projectTree) ==
  <<"## Project Structure", NL, Fence, NL>> \o projectTree \o <<Fence, NL, NL>>

\* the Modified files list of one commit block
RECURSIVE fileLines(_, _)
fileLines(names, i) ==
  IF i > Len(names) THEN <<>>
  ELSE <<"- ", names[i], NL>> \o fileLines(names, i + 1)

\* commit.diff.split('\n').slice(0, 5000).join('\n')
firstDiffLines(diff) ==
  join(SubSeq(split(diff, NL), 1, MathMin(Len(split(diff, NL)), DiffLineBudget)), NL)

\* the body of for (const commit of commits)
commitBlock(commit) ==
  <<"### Commit: ", commit.hash, NL,
    "Author: ", commit.author_name, " <", commit.author_email, ">", NL,
    "Date: ", commit.date, NL,
    "Message: ", commit.message, NL, NL>>
  \o (IF Len(commit.files) > 0
      THEN <<"Modified files:", NL>> \o fileLines(commit.files, 1) \o <<NL>>
      ELSE <<>>)
  \o (IF commit.diff # <<>>
      THEN <<"~~~diff", NL>> \o firstDiffLines(commit.diff)
           \o <<NL, DiffTruncated, NL, Fence, NL, NL>>
      ELSE <<>>)

RECURSIVE commitBlocksNewestLast(_, _)
commitBlocksNewestLast(commits, i) ==
  IF i > Len(commits) THEN <<>>
  ELSE commitBlocksNewestLast(commits, i + 1) \o commitBlock(commits[i])

RECURSIVE commitBlocks(_, _)
commitBlocks(commits, i) ==
  IF i > Len(commits) THEN <<>>
  ELSE commitBlock(commits[i]) \o commitBlocks(commits, i + 1)

AnalysisHeader ==
  <<"I need you to analyze the following git commit(s) and provide a summary of changes.",
    NL, NL>>

ReviewDirective ==
  <<"This is a CODE REVIEW request. Please carefully examine the code changes for:",
    NL, NL>>

SummaryDirective == <<"This is a CHANGE SUMMARY request. Please provide:", NL, NL>>

ReviewChecklist ==
  <<NL, "  Please provide a detailed code review of the above changes. Include:", NL>>

SummaryChecklist ==
  <<NL, "  Please provide a clear summary of the changes including:", NL>>

\* createAnalysisPrompt(commits, projectInfo, projectTree, options)
createAnalysisPrompt(commits, info, projectTree, review) ==
  IF requirementsUnreadable(info) THEN Thrown(SplitTypeError)
  ELSE Built(AnalysisHeader
             \o (IF review THEN ReviewDirective ELSE SummaryDirective)
             \o <<"## Project Information", NL>>
             \o analysisPackageLines(info)
             \o analysisConfigLines(info)
             \o documentationBlock(info, AnalysisReadmeBudget)
             \o structureBlock(projectTree)
             \o <<"## Commits to Analyze (", DigitChars[Len(commits) + 1], ")", NL, NL>>
             \o commitBlocks(commits, 1)
             \o (IF review THEN ReviewChecklist ELSE SummaryChecklist))

\* generateRepositoryContext(projectInfo, projectTree, projectPath)
generateRepositoryContext(info, projectTree, projectPath) ==
  IF requirementsUnreadable(info) THEN Thrown(SplitTypeError)
  ELSE Built(<<"# Repository Context", NL, NL, "## Project Information", NL,
               "Path: ", projectPath, NL>>
             \o contextPackageLines(info)
             \o contextConfigLines(info)
             \o documentationBlock(info, ContextReadmeBudget)
             \o structureBlock(projectTree))

\* a file content of n characters, no two neighbours alike
contentOf(n) == [i \in 1..n |-> DigitChars[(i % 10) + 1]]

ReadmeLengths == {5, 1999, 2000, 2001, 3000, 3001}

\* the entry the discovery loop records for a descriptor, given the file
entryFor(path, file) ==
  LET i == CHOOSE k \in 1..Len(configFiles) : configFiles[k].path = path
  IN  <<configFiles[i].category, path>> :> examine(configFiles[i], file).entry

PackageValue ==
  [name |-> "cnav", description |-> "", dependencies |-> <<"chalk", "ora">>,
   scripts |-> <<"build", "test">>]

\* objects getProjectInfo returns
ProjectInfoSamples ==
  {<<>>}
  \cup { ("configFiles" :> entryFor("package.json", JsonFile(<<"{}">>, PackageValue)))
         @@ ("packageJson" :> PackageValue)
         @@ ("README" :> (<<"README.md">> :> contentOf(n))) : n \in ReadmeLengths }
  \cup { ("configFiles" :>
            (entryFor("requirements.txt",
                      File(<<"#", " pinned", NL, "requests", NL, "flask", NL>>))
             @@ entryFor(".github/workflows", Directory(<<<<"c", "i", ".", "y", "m", "l">>>>))
             @@ entryFor("Dockerfile", File(<<"FROM node">>))))
         @@ ("README" :> ((<<"README.md">> :> contentOf(n))
                          @@ (<<"docs", "README.md">> :> contentOf(2001)))) :
         n \in ReadmeLengths }
  \cup { "configFiles" :> entryFor("requirements.txt", UnreadableFile) }

Commit(hash, diff, names) ==
  [hash |-> hash, author_name |-> "dev", author_email |-> "dev@example.com",
   date |-> "2024-03-01", message |-> "change", diff |-> diff, files |-> names]

\* commit lists the retrieval operations return
CommitListSamples ==
  { <<>>,
    <<Commit("c1", <<"+a", NL, "-b">>, <<"a.ts">>)>>,
    <<Commit("c2", <<>>, <<"logo.png">>), Commit("c1", <<"+a", NL, "-b">>, <<"a.ts">>)>>,
    <<Commit("c3", <<"+x">>, <<>>)>> }

\* texts getProjectTree returns
TreeTextSamples == {<<>>, <<LastConnector, "a.ts", NL>>}

InitPromptInputs ==
  /\ promptCommits \in CommitListSamples
  /\ promptInfo \in ProjectInfoSamples
  /\ promptTree \in TreeTextSamples
  /\ performCodeReview \in BOOLEAN
  /\ built = {}
  /\ prompt = NotBuilt
  /\ context = NotBuilt

\* analyzeCommits builds the commit-analysis prompt
buildAnalysisPrompt ==
  /\ "prompt" \notin built
  /\ prompt' = createAnalysisPrompt(promptCommits, promptInfo, promptTree,
                                    performCodeReview)
  /\ built' = built \cup {"prompt"}
  /\ UNCHANGED <<promptCommits, promptInfo, promptTree, performCodeReview, context>>
  /\ UNCHANGED notPrompt

\* analyzeCommand builds the repository context
buildRepositoryContext ==
  /\ "context" \notin built
  /\ context' = generateRepositoryContext(promptInfo, promptTree, "target")
  /\ built' = built \cup {"context"}
  /\ UNCHANGED <<promptCommits, promptInfo, promptTree, performCodeReview, prompt>>
  /\ UNCHANGED notPrompt

(***************************************************************************)
(* The prompt builders as functions of their arguments and of what they    *)
(* read: createProjectAnalysisPrompt (commands/analyze.ts) and             *)
(* createChangelogPrompt (services/changelog.ts), next to the two builders *)
(* above.  Each call is recorded with the date at which it was made.       *)
(***************************************************************************)
MaxDays == 1

ProjectHeader ==
  <<"I need you to analyze this software project and provide insights.", NL, NL>>

ProjectReviewDirective ==
  <<"This is a PROJECT REVIEW request. Please analyze the project for:", NL, NL>>

ProjectOverviewDirective ==
  <<"This is a PROJECT OVERVIEW request. Please provide:", NL, NL>>

ProjectReviewChecklist ==
  <<NL, "Please provide a comprehensive project review including:", NL>>

ProjectOverviewChecklist ==
  <<NL, "Please provide a clear project overview including:", NL>>

ContextTitle == <<"# Repository Context", NL, NL>>

\* repositoryContext.replace(/^# Repository Context\n\n/, '')
withoutTitle(text) ==
  IF startsWith(text, ContextTitle)
  THEN SubSeq(text, Len(ContextTitle) + 1, Len(text)) ELSE text

\* createProjectAnalysisPrompt(projectInfo, projectTree, projectPath, options)
createProjectAnalysisPrompt(info, projectTree, projectPath, review) ==
  LET repositoryContext == generateRepositoryContext(info, projectTree, projectPath)
  IN  IF repositoryContext.kind = "err" THEN repositoryContext
      ELSE Built(ProjectHeader
                 \o (IF review THEN ProjectReviewDirective
                     ELSE ProjectOverviewDirective)
                 \o withoutTitle(repositoryContext.text)
                 \o (IF review THEN ProjectReviewChecklist
                     ELSE ProjectOverviewChecklist))

\* options.format || 'weekly'
formatOrWeekly(fmt) == IF fmt = "" THEN "weekly" ELSE fmt

\* the packageJson lines of createChangelogPrompt
changelogPackageLines(info) ==
  IF "packageJson" \notin DOMAIN info THEN <<>>
  ELSE <<"Project name: ", orElse(info["packageJson"], "name", "Unknown"), NL,
         "Version: ", orElse(info["packageJson"], "version", "0.1.0"), NL,
         "Description: ", orElse(info["packageJson"], "description", "N/A"), NL>>

\* the configFiles lines of createChangelogPrompt
changelogConfigLines(info) ==
  IF "configFiles" \notin DOMAIN info THEN <<>>
  ELSE LET configs == info["configFiles"]
       IN  (IF Len(technologies(configs)) > 0
            THEN <<"Technologies: ">> \o joinNames(technologies(configs)) \o <<NL>>
            ELSE <<>>)
        \o (IF hasCategory(configs, "python")
            THEN <<"Python project with relevant dependencies and configuration", NL>>
            ELSE <<>>)
        \o (IF hasCategory(configs, "docker")
            THEN <<"Containerized application with Docker", NL>> ELSE <<>>)
        \o (IF hasCategory(configs, "cicd")
            THEN <<"CI/CD pipeline configured for automated deployment/testing", NL>>
            ELSE <<>>)

\* the body of for (const commit of commits) in createChangelogPrompt
changelogCommitBlock(commit) ==
  <<"### Commit: ", commit.hash, NL,
    "Author: ", commit.author_name, " <", commit.author_email, ">", NL,
    "Date: ", commit.date, NL,
    "Message: ", commit.message, NL, NL>>
  \o (IF Len(commit.files) > 0
      THEN <<"Modified files:", NL>> \o fileLines(commit.files, 1) \o <<NL>>
      ELSE <<>>)

RECURSIVE changelogCommitBlocks(_, _)
changelogCommitBlocks(commits, i) ==
  IF i > Len(commits) THEN <<>>
  ELSE changelogCommitBlock(commits[i]) \o changelogCommitBlocks(commits, i + 1)

\* projectInfo.packageJson?.version || '0.1.0'
versionOf(info) ==
  IF "packageJson" \in DOMAIN info THEN orElse(info["packageJson"], "version", "0.1.0")
  ELSE "0.1.0"

\* createChangelogPrompt(commits, projectInfo, options), with the date that
\* new Date() gives at the moment of the call
createChangelogPrompt(commits, info, fmt, now) ==
  LET isoToday == toISODate(now)
  IN  Built(<<"I need you to generate a changelog entry for the following git commits.",
              NL, NL,
              "This changelog follows the Keep a Changelog format (https://keepachangelog.com/).",
              NL,
              "The format should be '", formatOrWeekly(fmt), "' (",
              IF formatOrWeekly(fmt) = "daily" THEN "entries for each day"
              ELSE "weekly summary",
              ").", NL, NL,
              "## Project Information", NL>>
            \o changelogPackageLines(info)
            \o changelogConfigLines(info)
            \o <<NL, "## Commits to Include in Changelog (",
                 DigitChars[Len(commits) + 1], ")", NL, NL>>
            \o changelogCommitBlocks(commits, 1)
            \o <<NL, "Please generate a changelog entry with the following format:",
                 NL, NL, "## [", versionOf(info), "] - ">>
            \o isoToday
            \o <<NL, NL, "### Added", NL>>)

\* the day after a date
tomorrow(date) ==
  IF date.d < DaysInMonth(date.y, date.m) THEN [date EXCEPT !.d = @ + 1]
  ELSE IF date.m < 12 THEN [date EXCEPT !.m = @ + 1, !.d = 1]
  ELSE [y |-> date.y + 1, m |-> 1, d |-> 1]

RECURSIVE daysAfter(_, _)
daysAfter(date, n) == IF n = 0 THEN date ELSE daysAfter(tomorrow(date), n - 1)

\* dates at which the first call is made
ClockSamples == {[y |-> 2024, m |-> 2, d |-> 29], [y |-> 2024, m |-> 12, d |-> 31]}

\* the dates the clock shows
Moments == {daysAfter(start, n) : start \in ClockSamples, n \in 0..MaxDays}

BuilderNames ==
  {"createAnalysisPrompt", "createProjectAnalysisPrompt", "createChangelogPrompt"}

\* a project with configuration files, README files and a package.json
ProjectIdentified(info) ==
  /\ "configFiles" \in DOMAIN info
  /\ "README" \in DOMAIN info
  /\ "packageJson" \in DOMAIN info

\* the objects of ProjectInfoSamples whose README files are the shortest
ShortInfoSamples ==
  {info \in ProjectInfoSamples :
     "README" \in DOMAIN info =>
       \A path \in DOMAIN info["README"] :
         \A n \in ReadmeLengths : Len(info["README"][path]) <= n}

InitAssemblyInputs ==
  /\ promptCommits \in {commits \in CommitListSamples :
                          commits # <<>> => commits[1].files # <<>>}
  /\ promptInfo \in ShortInfoSamples \cup {"packageJson" :> [version |-> "1.2.0"]}
  /\ promptTree = <<LastConnector, "a.ts", NL>>
  /\ performCodeReview \in BOOLEAN
  /\ built = {}
  /\ prompt = NotBuilt
  /\ context = NotBuilt
  /\ clock \in ClockSamples
  /\ format \in {"", "daily"}
  /\ outputs = [name \in BuilderNames |-> {}]

\* what a call adds to the record of a builder
called(name, returned) ==
  [outputs EXCEPT ![name] = @ \cup {[at |-> clock, out |-> returned]}]

\* a call of createAnalysisPrompt with the arguments of this run
callCreateAnalysisPrompt ==
  /\ \A r \in outputs["createAnalysisPrompt"] : r.at # clock
  /\ outputs' = called("createAnalysisPrompt",
                       createAnalysisPrompt(promptCommits, promptInfo, promptTree,
                                            performCodeReview))
  /\ UNCHANGED <<clock, format>>
  /\ UNCHANGED notAssembly

\* a call of createProjectAnalysisPrompt with the arguments of this run
callCreateProjectAnalysisPrompt ==
  /\ \A r \in outputs["createProjectAnalysisPrompt"] : r.at # clock
  /\ outputs' = called("createProjectAnalysisPrompt",
                       createProjectAnalysisPrompt(promptInfo, promptTree, "target",
                                                   performCodeReview))
  /\ UNCHANGED <<clock, format>>
  /\ UNCHANGED notAssembly

\* a call of createChangelogPrompt with the arguments of this run
callCreateChangelogPrompt ==
  /\ \A r \in outputs["createChangelogPrompt"] : r.at # clock
  /\ outputs' = called("createChangelogPrompt",
                       createChangelogPrompt(promptCommits, promptInfo, format, clock))
  /\ UNCHANGED <<clock, format>>
  /\ UNCHANGED notAssembly

\* midnight passes
dayPasses ==
  /\ tomorrow(clock) \in Moments
  /\ clock' = tomorrow(clock)
  /\ UNCHANGED <<format, outputs>>
  /\ UNCHANGED notAssembly

(***************************************************************************)
(* changelogCommand (commands/changelog.ts) with generateChangelog         *)
(* (services/changelog.ts).  A file content is a sequence of tokens, "\n"  *)
(* a token of its own.                                                     *)
(***************************************************************************)
NoChangelogContent == <<"No changelog content generated">>

\* response.choices[0]?.message?.content || 'No changelog content generated'
contentOrNone(content) == IF content = <<>> THEN NoChangelogContent ELSE content

\* what the chat completion can answer with: an entry, or no content
CompletionSamples ==
  { <<"## [0.1.3] - 2024-03-01", NL, NL, "### Added", NL, "- new command">>,
    <<"## [0.1.3] - 2024-03-01", NL, NL, "### Fixed", NL, "- date parsing", NL>>,
    <<>> }

\* CHANGELOG.md before the run: absent, empty, with earlier entries
ChangelogFileSamples ==
  { [exists |-> FALSE, content |-> <<>>],
    [exists |-> TRUE, content |-> <<>>],
    [exists |-> TRUE, content |-> <<"# Changelog", NL>>],
    [exists |-> TRUE,
     content |-> <<"## [0.1.0] - 2025-04-15", NL, NL, "### Added", NL, "- first">>],
    [exists |-> TRUE,
     content |-> <<"## [0.1.1] - 2025-04-20", NL, NL, "### Fixed", NL, "- typo", NL, NL,
                   "## [0.1.0] - 2025-04-15", NL, NL, "### Added", NL, "- first", NL>>] }

\* existingContent: '' unless the file exists and is read
existingContentOf(file) == IF file.exists THEN file.content ELSE <<>>

updatedContentReplacing(content, existingContent) == content

\* changelogContent + (existingContent ? '\n\n' + existingContent : '')
updatedContent(content, existingContent) ==
  content \o (IF existingContent # <<>> THEN <<NL, NL>> \o existingContent ELSE <<>>)

InitChangelogInputs ==
  /\ changelogFile \in ChangelogFileSamples
  /\ fileAtStart = changelogFile
  /\ changelogPc = "start"
  /\ newCommits = <<>>
  /\ changelogContent = <<>>
  /\ completions = 0
  /\ changelogExit = -1

\* the catch block of changelogCommand: the failure is printed, process.exit(1)
changelogCatch ==
  /\ changelogPc' = "exited"
  /\ changelogExit' = 1

\* getCommitsSinceLastChangelog resolves; without commits the handler returns
getCommitsResolves ==
  /\ changelogPc = "start"
  /\ \E n \in 0..MaxCommits :
       /\ newCommits' = [k \in 1..n |-> Commit(DigitChars[k + 1], <<"+a">>, <<"a.ts">>)]
       /\ IF n = 0
          THEN changelogPc' = "returned" /\ changelogExit' = 0
          ELSE changelogPc' = "generating" /\ UNCHANGED changelogExit
  /\ UNCHANGED <<changelogFile, fileAtStart, changelogContent, completions>>
  /\ UNCHANGED notChangelog

\* getCommitsSinceLastChangelog rejects
getCommitsRejects ==
  /\ changelogPc = "start"
  /\ changelogCatch
  /\ UNCHANGED <<changelogFile, fileAtStart, newCommits, changelogContent, completions>>
  /\ UNCHANGED notChangelog

\* generateChangelog: getProjectInfo, getOpenAIClient, createChangelogPrompt,
\* then the chat completion request
createCompletion ==
  /\ changelogPc = "generating"
  /\ completions' = completions + 1
  /\ changelogPc' = "awaiting"
  /\ UNCHANGED <<changelogFile, fileAtStart, newCommits, changelogContent, changelogExit>>
  /\ UNCHANGED notChangelog

\* generateChangelog: getProjectInfo or getOpenAIClient rejects before any request
generateRejectsEarly ==
  /\ changelogPc = "generating"
  /\ changelogCatch
  /\ UNCHANGED <<changelogFile, fileAtStart, newCommits, changelogContent, completions>>
  /\ UNCHANGED notChangelog

\* the chat completion resolves and generateChangelog returns the entry
completionResolves ==
  /\ changelogPc = "awaiting"
  /\ \E content \in CompletionSamples : changelogContent' = contentOrNone(content)
  /\ changelogPc' = "writing"
  /\ UNCHANGED <<changelogFile, fileAtStart, newCommits, completions, changelogExit>>
  /\ UNCHANGED notChangelog

\* the chat completion rejects; generateChangelog rethrows
completionRejects ==
  /\ changelogPc = "awaiting"
  /\ changelogCatch
  /\ UNCHANGED <<changelogFile, fileAtStart, newCommits, changelogContent, completions>>
  /\ UNCHANGED notChangelog

\* pathExists, readFile, writeFile: the entry is put before what the file held
writeChangelog ==
  /\ changelogPc = "writing"
  /\ changelogFile' =
       [exists |-> TRUE,
        content |-> updatedContent(changelogContent, existingContentOf(changelogFile))]
  /\ changelogPc' = "returned"
  /\ changelogExit' = 0
  /\ UNCHANGED <<fileAtStart, newCommits, changelogContent, completions>>
  /\ UNCHANGED notChangelog

\* readFile or writeFile rejects
writeChangelogRejects ==
  /\ changelogPc = "writing"
  /\ changelogCatch
  /\ UNCHANGED <<changelogFile, fileAtStart, newCommits, changelogContent, completions>>
  /\ UNCHANGED notChangelog

(***************************************************************************)
(* Specifications                                                          *)
(***************************************************************************)
\* the gateway at rest while a retrieval operation runs
IdleLLM ==
  /\ envOpenaiKey = ""
  /\ config = [openaiApiKey |-> ""]
  /\ anthropicKey = ""
  /\ messages = <<>>
  /\ options = [model |-> "", maxTokens |-> NotGiven, temperature |-> NotGiven,
                systemMessage |-> <<>>]
  /\ llmPc = "idle"
  /\ provider = NoProvider
  /\ requests = <<>>
  /\ response = NoAnswer
  /\ result = LLMPending

\* the retrieval operations at rest while a gateway call runs
IdleGit ==
  /\ op = "none"
  /\ arg = 0
  /\ isRepo = FALSE
  /\ history = 0
  /\ changelog = AbsentFile
  /\ today = [y |-> 2024, m |-> 3, d |-> 1]
  /\ pc = "idle"
  /\ since = <<>>
  /\ logAll = <<>>
  /\ task = <<>>
  /\ slot = <<>>
  /\ order = <<>>
  /\ outcome = Pending
  /\ failed = <<>>
  /\ logQueries = 0
  /\ showQueries = 0

\* no command handler runs
IdleCmd ==
  /\ cmd = "none"
  /\ cmdOptions = NoOptions
  /\ cmdPc = "idle"
  /\ cwd = "original"
  /\ raised = <<>>
  /\ printed = <<>>
  /\ written = {}
  /\ exitCode = -1
  /\ argv = <<>>
  /\ countArg = ""
  /\ invoked = 0
  /\ retrieval = NoRetrieval

\* getProjectTree is not called
IdleTree ==
  /\ lsFiles = <<>>
  /\ maxDepth = DefaultMaxDepth
  /\ treePc = "idle"
  /\ treeFiles = <<>>
  /\ fileIdx = 0
  /\ tree = {}
  /\ treeResult = <<>>

\* getProjectInfo is not called
IdleInfo ==
  /\ disk = <<>>
  /\ infoPc = "idle"
  /\ cfgIdx = 0
  /\ examined = <<>>
  /\ foundConfigs = <<>>
  /\ projectInfo = <<>>
  /\ infoError = <<>>

\* no prompt is being built
IdlePrompt ==
  /\ promptCommits = <<>>
  /\ promptInfo = <<>>
  /\ promptTree = <<>>
  /\ performCodeReview = FALSE
  /\ built = {}
  /\ prompt = NotBuilt
  /\ context = NotBuilt

\* findReadmeFiles is not called
IdleReadme ==
  /\ baseDirExists = FALSE
  /\ docs = <<>>
  /\ readmePc = "idle"
  /\ found = <<>>
  /\ readIdx = 0
  /\ readmeResult = <<>>
  /\ warnings = {}

\* no prompt builder is called again
IdleAssembly ==
  /\ clock = [y |-> 2024, m |-> 3, d |-> 1]
  /\ format = ""
  /\ outputs = <<>>

\* changelogCommand is not running
IdleChangelog ==
  /\ changelogPc = "idle"
  /\ changelogFile = [exists |-> FALSE, content |-> <<>>]
  /\ fileAtStart = [exists |-> FALSE, content |-> <<>>]
  /\ newCommits = <<>>
  /\ changelogContent = <<>>
  /\ completions = 0
  /\ changelogExit = -1

InitGit ==
  InitGitInputs /\ IdleLLM /\ IdleCmd /\ IdleTree /\ IdleInfo
  /\ IdleReadme /\ IdlePrompt /\ IdleAssembly /\ IdleChangelog

NextGit ==
  \/ checkIsRepo
  \/ resolveSinceDate
  \/ gitLog
  \/ gitLogFails
  \/ \E i \in 1..Len(task) : showDiff(i)
  \/ \E i \in 1..Len(task) : showDiffFails(i)
  \/ \E i \in 1..Len(task) : showFiles(i)
  \/ \E i \in 1..Len(task) : showFilesFails(i)

\* one retrieval operation, from its call to its return or throw
Spec == InitGit /\ [][NextGit]_vars

InitLLM ==
  InitLLMInputs /\ IdleGit /\ IdleCmd /\ IdleTree /\ IdleInfo
  /\ IdleReadme /\ IdlePrompt /\ IdleAssembly /\ IdleChangelog

NextLLM ==
  \/ getLLMProvider
  \/ getLLMProviderThrows
  \/ dispatchOpenAI
  \/ dispatchAnthropic
  \/ openaiResponds
  \/ anthropicResponds
  \/ backendRejects
  \/ openaiNotOk
  \/ anthropicNotOk

\* one performLLMInference call, from its call to its return or throw
SpecLLM == InitLLM /\ [][NextLLM]_vars

InitCmd ==
  InitCmdInputs /\ IdleGit /\ IdleLLM /\ IdleTree /\ IdleInfo
  /\ IdleReadme /\ IdlePrompt /\ IdleAssembly /\ IdleChangelog

NextCmd ==
  \/ callHandler
  \/ lastGetCommits
  \/ lastGetCommitsFails
  \/ analyzeCommitsPrompt
  \/ analyzeStat
  \/ analyzeStatFails
  \/ analyzeGather
  \/ analyzeGatherFails
  \/ analyzeWriteContextFails
  \/ gatewayResolvesInLast
  \/ gatewayRejectsInLast
  \/ gatewayResolvesInAnalyze
  \/ analyzeWriteFails
  \/ gatewayRejectsInAnalyze

\* one run of a command handler, from its call to its return or exit
SpecCmd == InitCmd /\ [][NextCmd]_vars

InitTree ==
  InitTreeInputs /\ IdleGit /\ IdleLLM /\ IdleCmd /\ IdleInfo
  /\ IdleReadme /\ IdlePrompt /\ IdleAssembly /\ IdleChangelog

NextTree ==
  \/ lsFilesResolves
  \/ lsFilesRejects
  \/ insertNextFile
  \/ returnFormatTree

\* one getProjectTree call, from its call to its return
SpecTree == InitTree /\ [][NextTree]_vars

InitInfo ==
  InitInfoInputs /\ IdleGit /\ IdleLLM /\ IdleCmd /\ IdleTree
  /\ IdleReadme /\ IdlePrompt /\ IdleAssembly /\ IdleChangelog

NextInfo ==
  \/ examineNext
  \/ returnProjectInfo

\* one getProjectInfo call, from its call to its return or throw
SpecInfo == InitInfo /\ [][NextInfo]_vars

InitReadme ==
  InitReadmeInputs /\ IdleGit /\ IdleLLM /\ IdleCmd /\ IdleTree /\ IdleInfo
  /\ IdlePrompt /\ IdleAssembly /\ IdleChangelog

NextReadme ==
  \/ globResolves
  \/ globRejects
  \/ readNext
  \/ returnReadmeFiles

\* one findReadmeFiles call, from its call to its return
SpecReadme == InitReadme /\ [][NextReadme]_vars

InitPrompt ==
  InitPromptInputs /\ IdleGit /\ IdleLLM /\ IdleCmd /\ IdleTree /\ IdleInfo /\ IdleReadme
  /\ IdleAssembly /\ IdleChangelog

NextPrompt ==
  \/ buildAnalysisPrompt
  \/ buildRepositoryContext

\* the two prompt builders applied to one set of arguments
SpecPrompt == InitPrompt /\ [][NextPrompt]_vars

InitAssembly ==
  InitAssemblyInputs /\ IdleGit /\ IdleLLM /\ IdleCmd /\ IdleTree /\ IdleInfo /\ IdleReadme
  /\ IdleChangelog

NextAssembly ==
  \/ callCreateAnalysisPrompt
  \/ callCreateProjectAnalysisPrompt
  \/ callCreateChangelogPrompt
  \/ dayPasses

\* the three prompt builders called with one set of arguments on successive days
SpecAssembly == InitAssembly /\ [][NextAssembly]_vars

InitChangelog ==
  InitChangelogInputs /\ IdleGit /\ IdleLLM /\ IdleCmd /\ IdleTree /\ IdleInfo
  /\ IdleReadme /\ IdlePrompt /\ IdleAssembly

NextChangelog ==
  \/ getCommitsResolves
  \/ getCommitsRejects
  \/ createCompletion
  \/ generateRejectsEarly
  \/ completionResolves
  \/ completionRejects
  \/ writeChangelog
  \/ writeChangelogRejects

\* one run of changelogCommand, from its call to its return or exit
SpecChangelog == InitChangelog /\ [][NextChangelog]_vars







(***************************************************************************)
(* Properties of the retrieval operations                                  *)
(***************************************************************************)
Returned == outcome.kind = "ok"

RecordIndices == 1..Len(outcome.list)

linesOf(text) == split(text, NL)

\* the k-th smallest element of a set of integers
NthOf(S, k) == CHOOSE x \in S : Cardinality({y \in S : y < x}) = k - 1

\* out is raw with exactly the lines containing "lock" removed, the rest in order
IsRawWithoutLockLines(raw, out) ==
  LET rawLines == linesOf(raw)
      keep == {i \in 1..Len(rawLines) : ~includes(rawLines[i], LockMarker)}
      outLines == linesOf(out)
  IN  IF keep = {} THEN out = <<>>
      ELSE /\ Len(outLines) = Cardinality(keep)
           /\ \A k \in 1..Len(outLines) : outLines[k] = rawLines[NthOf(keep, k)]

\* C1: the returned list has one record per commit of the log query, and the
\* i-th record carries the hash of the i-th log entry, whatever the order in
\* which the per-commit fetches completed.
C1_OrderOfLogPreserved ==
  Returned =>
    /\ Len(outcome.list) = Len(logAll)
    /\ \A i \in 1..Len(logAll) : outcome.list[i].hash = logAll[i].hash

C1_Witness ==
  /\ Returned
  /\ op = "getCommitsSinceLastChangelog"
  /\ Len(logAll) = 2
  /\ order = <<2, 1>>

\* C2: no line of a returned record's diff contains "lock"; the diff is empty
\* or is the raw diff with exactly those lines removed and the others in order.
C2_NoLockLineInDiff ==
  Returned =>
    \A i \in RecordIndices :
      LET diff == outcome.list[i].diff
      IN  /\ \A k \in 1..Len(linesOf(diff)) : ~includes(linesOf(diff)[k], LockMarker)
          /\ (diff = <<>> \/ IsRawWithoutLockLines(task[i].diff, diff))

C2_Witness ==
  /\ Returned
  /\ \E i \in RecordIndices :
       /\ \E k \in 1..Len(linesOf(task[i].diff)) :
            includes(linesOf(task[i].diff)[k], LockMarker)
       /\ outcome.list[i].diff # <<>>

\* a dependency lock file path: *.lock (a.lock, yarn.lock, Cargo.lock), package-lock.json
IsLockFilePath(file) ==
  \/ endsWith(file, <<".", "l", "o", "c", "k">>)
  \/ endsWith(file, <<"p", "a", "c", "k", "a", "g", "e", "-", "l", "o", "c", "k",
                      ".", "j", "s", "o", "n">>)

\* C3: the file list of a returned record never includes a dependency lock
\* file path (a.lock is omitted), while a non-lock file such as a.ts is kept.
C3_NoLockFileInFiles ==
  Returned =>
    \A i \in RecordIndices :
      LET listed == files(task[i].filesResult)
          kept == outcome.list[i].files
      IN  /\ \A k \in 1..Len(kept) : ~IsLockFilePath(kept[k])
          /\ \A k \in 1..Len(listed) :
               ~IsLockFilePath(listed[k]) =>
                  \E j \in 1..Len(kept) : kept[j] = listed[k]

\* C4: a raw diff with the binary-file marker gives an empty diff and the file
\* list the commit would have had without the marker; a raw diff without the
\* marker gives the lock-filtered diff.
C4_BinaryDiffEmptiedFilesKept ==
  Returned =>
    \A i \in RecordIndices :
      LET raw == task[i].diff
          record == outcome.list[i]
      IN  IF includes(raw, BinaryMarker)
          THEN /\ record.diff = <<>>
               /\ record.files = commitRecord(logAll[i], <<>>, task[i].filesResult).files
          ELSE IsRawWithoutLockLines(raw, record.diff)

C4_Witness ==
  /\ Returned
  /\ \E i \in RecordIndices :
       /\ includes(task[i].diff, BinaryMarker)
       /\ outcome.list[i].diff = <<>>
       /\ outcome.list[i].files # <<>>

\* C5: every retrieval operation checks first that the working directory is a
\* repository; when it is not, it fails with the not-a-repository error and
\* issues no log or show query.
C5_NoQueryOutsideRepository ==
  ~isRepo =>
    /\ logQueries = 0
    /\ showQueries = 0
    /\ pc = "done" => outcome = catchWrap(NotARepoMessage)

\* C6: when the log query or any per-commit query fails, the operation fails
\* with "Failed to get commits: " followed by the original message, and no
\* list of records is returned, even when all other fetches succeed.
C6_OneFailureFailsTheBatch ==
  failed # <<>> =>
    /\ outcome.kind = "err"
    /\ outcome.list = <<>>
    /\ outcome.message = <<"Failed to get commits: ">> \o failed[1]

C6_Witness ==
  /\ outcome.kind = "err"
  /\ Len(task) = 2
  /\ \E i, j \in 1..Len(task) : task[i].stage = "failed" /\ task[j].stage = "done"

\* [y, m, d] of a YYYY-MM-DD text
parseISODate(text) ==
  [y |-> 1000 * digitValue(text[1]) + 100 * digitValue(text[2])
           + 10 * digitValue(text[3]) + digitValue(text[4]),
   m |-> 10 * digitValue(text[6]) + digitValue(text[7]),
   d |-> 10 * digitValue(text[9]) + digitValue(text[10])]

RECURSIVE DaysBeforeMonth(_, _)
DaysBeforeMonth(y, m) ==
  IF m = 1 THEN 0 ELSE DaysBeforeMonth(y, m - 1) + DaysInMonth(y, m - 1)

\* days from 0001-01-01 to the date
DayNumber(date) ==
  365 * (date.y - 1) + ((date.y - 1) \div 4) - ((date.y - 1) \div 100)
    + ((date.y - 1) \div 400) + DaysBeforeMonth(date.y, date.m) + date.d

\* a ten-character text of the shape YYYY-MM-DD
IsISODateText(text) ==
  /\ Len(text) = 10
  /\ text[5] = "-"
  /\ text[8] = "-"
  /\ \A k \in {1, 2, 3, 4, 6, 7, 9, 10} : text[k] \in Digits

DatePositions(content) ==
  {i \in 1..(Len(content) - 9) : IsISODateText(SubSeq(content, i, i + 9))}

C7_WitnessDefault ==
  /\ op = "getCommitsSinceLastChangelog"
  /\ logQueries = 1
  /\ changelog.exists
  /\ today = [y |-> 2024, m |-> 3, d |-> 1]
  /\ since = <<"2", "0", "2", "4", "-", "0", "1", "-", "3", "1">>

(***************************************************************************)
(* Properties of the inference gateway                                     *)
(***************************************************************************)
OpenAICredentialPresent == envOpenaiKey # "" \/ config.openaiApiKey # ""

AnthropicCredentialPresent == anthropicKey # ""

Resolving == llmPc = "start"

\* C8: the OpenAI backend is selected whenever an OpenAI credential is present,
\* the Anthropic backend only when the OpenAI credential is absent and the
\* Anthropic one present, and with both absent the call rejects with the
\* credential-missing error before any request is issued.
C8_FixedPriorityResolution ==
  /\ ~Resolving =>
       /\ OpenAICredentialPresent => provider.provider = "openai"
       /\ provider.provider = "anthropic" <=>
            (~OpenAICredentialPresent /\ AnthropicCredentialPresent)
       /\ (~OpenAICredentialPresent /\ ~AnthropicCredentialPresent) =>
            /\ result.kind = "err"
            /\ result.message = NoApiKeyMessage
  /\ (~OpenAICredentialPresent /\ ~AnthropicCredentialPresent) => requests = <<>>

C8_Witness ==
  /\ provider.provider = "openai"
  /\ envOpenaiKey = ""
  /\ config.openaiApiKey # ""
  /\ AnthropicCredentialPresent
  /\ Len(requests) = 1

C8_WitnessMissing ==
  /\ llmPc = "done"
  /\ ~OpenAICredentialPresent
  /\ ~AnthropicCredentialPresent
  /\ result.kind = "err"

\* C9: within one call at most one request is issued and only to the selected
\* backend; when that request fails the call rejects with the failure, without
\* a retry and without contacting the other backend.
C9_NoRetryNoFallback ==
  /\ Len(requests) <= 1
  /\ \A k \in 1..Len(requests) :
       requests[k].backend = IF OpenAICredentialPresent THEN "openai" ELSE "anthropic"
  /\ (requests # <<>> /\ result.kind = "err") =>
       /\ llmPc = "done"
       /\ result.text = <<>>
       /\ \/ response.kind = "rejected" /\ result.message \in TransportErrors
          \/ response.kind = "status"
          \/ response.kind = "body" /\ result.message = ChoicesTypeError

C9_Witness ==
  /\ result.kind = "err"
  /\ Len(requests) = 1
  /\ requests[1].backend = "openai"
  /\ AnthropicCredentialPresent

\* C10: the maximum output size of every dispatched request is
\* min(requested, ceiling of the selected backend), the requested size being
\* 20000 when none is given, the ceiling 5000 for OpenAI and 4096 for Anthropic.
C10_MaxTokensClamped ==
  \A k \in 1..Len(requests) :
    LET requested == IF options.maxTokens.given THEN options.maxTokens.value ELSE 20000
        ceiling == IF requests[k].backend = "openai" THEN 5000 ELSE 4096
    IN  /\ requests[k].max_tokens <= ceiling
        /\ requests[k].max_tokens <= requested
        /\ requests[k].max_tokens \in {requested, ceiling}

C10_Witness ==
  /\ Len(requests) = 1
  /\ requests[1].backend = "openai"
  /\ ~options.maxTokens.given
  /\ requests[1].max_tokens = 5000

C10_WitnessAnthropic ==
  /\ Len(requests) = 1
  /\ requests[1].backend = "anthropic"
  /\ options.maxTokens = Given(4097)
  /\ requests[1].max_tokens = 4096

\* the text at choices[0].message.content or content[0].text, <<>> when absent
TextAtPath(data) ==
  IF ~data.hasList THEN <<>>
  ELSE IF data.items = <<>> THEN <<>>
  ELSE IF ~data.items[1].hasMessage THEN <<>>
  ELSE data.items[1].text

TextPathAbsent == response.kind = "body" /\ TextAtPath(response.data) = <<>>

\* C11: for every successfully parsed backend response in which the expected
\* text path is absent, the call resolves to the literal sentinel text
\* "no analysis available" and does not raise an error.
C11_SentinelNoAnalysisAvailable ==
  TextPathAbsent =>
    /\ result.kind = "ok"
    /\ result.text = <<"no analysis available">>

C12_WitnessOpenAI ==
  /\ response.kind = "status"
  /\ requests[1].backend = "openai"
  /\ result.kind = "err"

SystemEntries == {k \in 1..Len(messages) : messages[k].role = "system"}

AnthropicRequests == {k \in 1..Len(requests) : requests[k].backend = "anthropic"}

NoSystemRoleDispatched ==
  \A k \in AnthropicRequests :
    \A j \in 1..Len(requests[k].messages) : requests[k].messages[j].role # "system"

\* the content is one of the "\n"-separated parts of the system field
InSystemField(content, req) ==
  \E i \in 1..Len(req.system) :
    /\ i + Len(content) - 1 <= Len(req.system)
    /\ SubSeq(req.system, i, i + Len(content) - 1) = content
    /\ (i = 1 \/ req.system[i - 1] = NL)
    /\ (i + Len(content) - 1 = Len(req.system) \/ req.system[i + Len(content)] = NL)

AsUserMessage(content, req) ==
  \E j \in 1..Len(req.messages) :
    req.messages[j].role = "user" /\ req.messages[j].content = content

C13_WitnessReplaced ==
  /\ AnthropicRequests # {}
  /\ SystemEntries # {}
  /\ options.systemMessage # <<>>
  /\ \A k \in AnthropicRequests :
       \E e \in SystemEntries : ~InSystemField(messages[e].content, requests[k])

(***************************************************************************)
(* Properties of the command handlers                                      *)
(***************************************************************************)
GatewayRaised == raised # <<>>

AtBoundary ==
  /\ cmdPc = "exited"
  /\ exitCode = 1
  /\ printed # <<>>

\* C14: every error raised by the gateway reaches the command boundary with its
\* message unmodified, on the commit-analysis path and on the project-analysis
\* path, where it is printed and the process terminates with non-zero status.
C14_GatewayErrorUnmodified ==
  GatewayRaised =>
    /\ AtBoundary
    /\ printed[Len(printed)] = errorLine(raised)

\* C14 as the code has it: every error raised by the gateway reaches the
\* command boundary, is printed and ends the process with status 1; the
\* message is unmodified on the project-analysis path, and on the
\* commit-analysis path unless it contains "API key", in which case
\* analyzeCommits replaces it by its invalid-or-missing-key message.
C14_GatewayErrorAtBoundary ==
  GatewayRaised =>
    /\ AtBoundary
    /\ printed[Len(printed)] =
         IF cmd = "last" /\ includesApiKey(raised)
         THEN errorLine(InvalidKeyMessage)
         ELSE errorLine(raised)

C14_Witness ==
  /\ cmd = "last"
  /\ raised = NoApiKeyMessage
  /\ exitCode = 1
  /\ printed[Len(printed)] = errorLine(InvalidKeyMessage)

C14_WitnessProject ==
  /\ cmd = "analyze"
  /\ raised = NoApiKeyMessage
  /\ exitCode = 1
  /\ printed[Len(printed)] = errorLine(NoApiKeyMessage)

C14_WitnessTransport ==
  /\ cmd = "last"
  /\ raised \in TransportErrors
  /\ exitCode = 1
  /\ printed[Len(printed)] = errorLine(raised)

(***************************************************************************)
(* Properties of getProjectTree                                            *)
(***************************************************************************)
TreeRendered ==
  /\ treePc = "done"
  /\ (treeResult = <<>> \/ treeResult[1] # FailedToGenerateTree)

\* the tracked paths of the listing, each as its sequence of components
TrackedPaths ==
  {partsOf(line) : line \in {l \in {split(lsFiles, NL)[i] : i \in 1..Len(split(lsFiles, NL))} :
                               l # <<>>}}

HasExcludedComponent(parts) == \E i \in 1..Len(parts) : parts[i] \in EXCLUDED_DIR_NAMES

\* the lines of the rendered tree: indentation tokens, a connector, a name
TreeLines == SelectSeq(split(treeResult, NL), LAMBDA l : l # <<>>)

LineName(k) == TreeLines[k][Len(TreeLines[k])]

LineLevel(k) == Len(TreeLines[k]) - 1

\* the path a line stands for: its name under the path of the nearest line
\* above it that is one level higher
RECURSIVE LinePath(_)
LinePath(k) ==
  IF LineLevel(k) = 1 THEN <<LineName(k)>>
  ELSE LET above == {j \in 1..(k - 1) : LineLevel(j) = LineLevel(k) - 1}
       IN  LinePath(SetMax(above)) \o <<LineName(k)>>

RenderedPaths == {LinePath(k) : k \in 1..Len(TreeLines)}

InfoReturned == infoPc = "done"

KeyOf(i) == <<configFiles[i].category, configFiles[i].path>>

\* a manifest that is there but cannot be read, or read but not parsed
UnreadableManifest(i) ==
  /\ configFiles[i].type # "directory"
  /\ disk[configFiles[i].path].kind # "absent"
  /\ ~readSucceeds(configFiles[i], disk[configFiles[i].path])

ReadableManifest(i) ==
  /\ configFiles[i].type # "directory"
  /\ readSucceeds(configFiles[i], disk[configFiles[i].path])

\* C16: manifest discovery never aborts because of an unreadable or unparsable
\* manifest: the file is recorded under its category as existing, with the
\* unreadable marker and no content, every other descriptor is still examined
\* and recorded, and getProjectInfo returns normally.
C16_UnreadableManifestRecorded ==
  /\ infoPc # "failed"
  /\ infoError = <<>>
  /\ \A k \in 1..Len(examined) : examined[k] = configFiles[k].path
  /\ \A i \in 1..(cfgIdx - 1) :
       /\ UnreadableManifest(i) =>
            /\ KeyOf(i) \in DOMAIN foundConfigs
            /\ foundConfigs[KeyOf(i)].exists
            /\ foundConfigs[KeyOf(i)].error = UnableToRead
            /\ "content" \notin DOMAIN foundConfigs[KeyOf(i)]
       /\ ReadableManifest(i) =>
            /\ KeyOf(i) \in DOMAIN foundConfigs
            /\ "content" \in DOMAIN foundConfigs[KeyOf(i)]
  /\ InfoReturned =>
       /\ Len(examined) = Len(configFiles)
       /\ DOMAIN foundConfigs # {} => projectInfo["configFiles"] = foundConfigs

C16_Witness ==
  /\ InfoReturned
  /\ disk["package.json"].kind = "file"
  /\ ~disk["package.json"].parsable
  /\ disk["package.json"].readable
  /\ disk["requirements.txt"].readable
  /\ <<"nodejs", "package.json">> \in DOMAIN foundConfigs
  /\ <<"python", "requirements.txt">> \in DOMAIN foundConfigs
  /\ "packageJson" \notin DOMAIN projectInfo

(***************************************************************************)
(* Properties of findReadmeFiles                                           *)
(***************************************************************************)
ReadmeKeys == DOMAIN readmeResult

HasExcludedSegment(path) == \E i \in 1..Len(path) : path[i] \in EXCLUDED_DIR_NAMES

\* C17: the keys returned by findReadmeFiles are paths of at most two segments
\* (the target directory or one subdirectory level) without a component of the
\* excluded-directory set, and each key is mapped to the full content of its
\* file.
C17_ReadmeKeysShallowAndFull ==
  \A key \in ReadmeKeys :
    /\ Len(key) <= 2
    /\ ~HasExcludedSegment(key)
    /\ key[Len(key)] = ReadmeName
    /\ docs[key] = "readable"
    /\ readmeResult[key] = textAt(key)

C17_Witness ==
  /\ readmePc = "done"
  /\ ReadmeKeys = {<<"README.md">>, <<"docs", "README.md">>}
  /\ docs[<<"node_modules", "README.md">>] = "readable"
  /\ docs[<<"docs", "api", "README.md">>] = "readable"

\* C18: findReadmeFiles never fails: for a base directory that does not exist
\* it returns the empty mapping, and a found file that cannot be read is
\* skipped while every readable found file is still returned.
C18_ReadmeNeverFails ==
  /\ readmePc \in {"start", "reading", "done"}
  /\ ~baseDirExists => readmeResult = <<>>
  /\ \A k \in 1..(readIdx - 1) :
       IF docs[found[k]] = "readable"
       THEN found[k] \in ReadmeKeys
       ELSE found[k] \notin ReadmeKeys /\ found[k] \in warnings
  /\ readmePc = "done" => (baseDirExists => readIdx = Len(found) + 1)

C18_Witness ==
  /\ readmePc = "done"
  /\ Len(found) = 2
  /\ docs[found[1]] = "unreadable"
  /\ docs[found[2]] = "readable"
  /\ ReadmeKeys = {found[2]}

C18_WitnessNoBaseDir ==
  /\ readmePc = "done"
  /\ ~baseDirExists
  /\ readmeResult = <<>>

(***************************************************************************)
(* Properties of prompt assembly                                           *)
(***************************************************************************)
ReadmeOf == IF "README" \in DOMAIN promptInfo THEN promptInfo["README"] ELSE <<>>

ReadmeMarkers(text) ==
  Cardinality({i \in 1..Len(text) : text[i] = "[README truncated for brevity]"})

\* what a documentation entry has to show of a content under a budget
ShownOf(content, budget) ==
  IF Len(content) <= budget THEN content
  ELSE [i \in 1..budget |-> content[i]] \o <<"...", NL, "[README truncated for brevity]">>

PathText(path) == join([i \in 1..Len(path) |-> <<path[i]>>], "/")

EntryText(path, content, budget) ==
  <<"### ">> \o PathText(path) \o <<NL, "~~~", NL>> \o ShownOf(content, budget)
  \o <<NL, "~~~", NL, NL>>

HasEntry(text, path, content, budget) ==
  \E i \in {j \in 1..Len(text) : text[j] = "### "} :
    /\ i + Len(EntryText(path, content, budget)) - 1 <= Len(text)
    /\ SubSeq(text, i, i + Len(EntryText(path, content, budget)) - 1)
         = EntryText(path, content, budget)

DocumentationWithin(out, budget) ==
  out.kind = "ok" =>
    /\ ReadmeMarkers(out.text)
         = Cardinality({p \in DOMAIN ReadmeOf : Len(ReadmeOf[p]) > budget})
    /\ \A p \in DOMAIN ReadmeOf : HasEntry(out.text, p, ReadmeOf[p], budget)

\* C19: the rendered documentation block of an entry contains exactly one
\* truncation marker when the content is longer than the budget (2000 in the
\* commit-analysis prompt, 3000 in the repository context) and none when it is
\* at or below the budget; a truncated entry shows exactly the first budget
\* characters of the content.
C19_ReadmeTruncatedAtBudget ==
  /\ DocumentationWithin(prompt, 2000)
  /\ DocumentationWithin(context, 3000)

C19_Witness ==
  /\ prompt.kind = "ok"
  /\ context.kind = "ok"
  /\ <<"README.md">> \in DOMAIN ReadmeOf
  /\ Len(ReadmeOf[<<"README.md">>]) = 2001
  /\ DOMAIN ReadmeOf = {<<"README.md">>}
  /\ ReadmeMarkers(prompt.text) = 1
  /\ ReadmeMarkers(context.text) = 0

C19_WitnessAtBudget ==
  /\ prompt.kind = "ok"
  /\ context.kind = "ok"
  /\ DOMAIN ReadmeOf = {<<"README.md">>}
  /\ Len(ReadmeOf[<<"README.md">>]) = 3000
  /\ ReadmeMarkers(prompt.text) = 1
  /\ ReadmeMarkers(context.text) = 0

DiffMarkers(text) == Cardinality({i \in 1..Len(text) : text[i] = "... (truncated)"})

DiffLines(k) == split(promptCommits[k].diff, NL)

\* C20: each commit block holds at most the first 5000 lines of the commit's
\* diff, and the diff truncation marker is appended exactly when the diff was
\* cut at that budget: a diff of at most 5000 lines is rendered in full without
\* the marker.
C20_DiffMarkerOnlyWhenCut ==
  prompt.kind = "ok" =>
    DiffMarkers(prompt.text)
      = Cardinality({k \in 1..Len(promptCommits) : Len(DiffLines(k)) > 5000})

(***************************************************************************)
(* Prompt builders called again on later days                              *)
(***************************************************************************)
\* the results a builder has returned in this run
ResultsOf(name) == {r.out : r \in outputs[name]}

\* the dates at which a builder was called in this run
CalledAt(name) == {r.at : r \in outputs[name]}

\* C21: every prompt builder (createAnalysisPrompt, createProjectAnalysisPrompt,
\* createChangelogPrompt) returns the same text for the same arguments, whatever
\* the moments of the two calls: the calls of one run all have the same
\* arguments, so each builder has returned at most one result.
C21_BuildersDeterministic ==
  outputs # <<>> => \A name \in BuilderNames : Cardinality(ResultsOf(name)) <= 1

(***************************************************************************)
(* Properties of the command line                                          *)
(***************************************************************************)
\* the handler has returned or the process has exited
RunEnded == cmdPc \in {"returned", "exited"}

\* C22: whenever the tool is invoked with --oc or --output-context, as
\* cnav --oc or as cnav analyze --oc, the repository context is written to
\* README_context.md and the run ends without any inference call and without
\* writing README_cnav.md.
C22_OutputContextOnly ==
  hasOcFlag(argv) =>
    /\ invoked = 0
    /\ "README_cnav.md" \notin written
    /\ cmdPc = "returned" => "README_context.md" \in written

\* the command line is cnav last Nd
IsLastDaysShorthand ==
  /\ Len(argv) = 2
  /\ argv[1] = "last"
  /\ charsOf[argv[2]] = Append(digitsPrefix(charsOf[argv[2]]), "d")
  /\ digitsPrefix(charsOf[argv[2]]) # <<>>

\* C23: cnav last Nd is a shorthand for cnav last --days N: it retrieves the
\* commits of the last N days, getCommitsFromLastDays(N), not the last N
\* commits.
C23_LastNdIsDays ==
  (IsLastDaysShorthand /\ retrieval # NoRetrieval) =>
    /\ retrieval.fn = "getCommitsFromLastDays"
    /\ retrieval.n = valueOf(digitsPrefix(charsOf[argv[2]]))

(***************************************************************************)
(* Properties of the rendered tree                                         *)
(***************************************************************************)
\* the tracked paths that are folded into the tree
FoldedPaths == {parts \in TrackedPaths : ~HasExcludedComponent(parts)}

\* the lines that stand for a path
LinesOf(p) == {k \in 1..Len(TreeLines) : LinePath(k) = p}

\* line k has no line below it that hangs under it
Childless(k) == k = Len(TreeLines) \/ LineLevel(k + 1) <= LineLevel(k)

ParentLine(k) ==
  IF LineLevel(k) = 1 THEN 0
  ELSE SetMax({j \in 1..(k - 1) : LineLevel(j) = LineLevel(k) - 1})

Connector(k) == TreeLines[k][Len(TreeLines[k]) - 1]

\* the lines after k that hang under the same line as k
LaterSiblings(k) ==
  {j \in (k + 1)..Len(TreeLines) : LineLevel(j) = LineLevel(k) /\ ParentLine(j) = ParentLine(k)}

\* the entries of the tree strictly below a path
Below(p) == {n \in tree : Len(n.path) > Len(p) /\ IsPrefixOf(p, n.path)}

\* C25: in the rendered tree the children of a node appear in ascending
\* order of their names, the subtree of each child is emitted directly after
\* the line of the child, exactly the last child of each level has the corner
\* connector and every other child the tee connector.
C25_SortedChildrenAndConnectors ==
  TreeRendered =>
    /\ Len(TreeLines) = Cardinality(tree)
    /\ RenderedPaths = {n.path : n \in tree}
    /\ \A k \in 1..Len(TreeLines) :
         /\ \A j \in LaterSiblings(k) : rank(LineName(k)) < rank(LineName(j))
         /\ \A j \in (k + 1)..(k + Cardinality(Below(LinePath(k)))) :
              j <= Len(TreeLines) /\ IsPrefixOf(LinePath(k), LinePath(j))
         /\ Connector(k) = IF LaterSiblings(k) = {} THEN LastConnector ELSE MidConnector

C25_Witness ==
  /\ TreeRendered
  /\ \E k \in 1..Len(TreeLines) :
       /\ Connector(k) = MidConnector
       /\ Below(LinePath(k)) # {}
       /\ LineLevel(k) = 2

(***************************************************************************)
(* Properties of directory descriptors                                     *)
(***************************************************************************)
\* the directory at the path of descriptor i holds a .yml or .yaml entry
HasRelevantEntry(i) ==
  \E k \in 1..Len(disk[configFiles[i].path].entries) :
    isWorkflowFile(disk[configFiles[i].path].entries[k])

\* C26: a directory-kind descriptor such as .github/workflows is recorded in
\* the project context only if the directory contains at least one entry
\* with a relevant extension (.yml or .yaml); a directory that exists but
\* holds only other entries is not recorded.
C26_DirectoryNeedsRelevantEntry ==
  \A i \in 1..(cfgIdx - 1) :
    (configFiles[i].type = "directory" /\ KeyOf(i) \in DOMAIN foundConfigs)
      => HasRelevantEntry(i)

(***************************************************************************)
(* Properties of the order of the blocks of a prompt                       *)
(***************************************************************************)
\* the positions of a token in a text
PositionsOf(text, token) == {k \in 1..Len(text) : text[k] = token}

\* the token occurs once in the text
Once(text, token) == Cardinality(PositionsOf(text, token)) = 1

\* the first position of a token that occurs in the text
FirstOf(text, token) == SetMin(PositionsOf(text, token))

\* the tokens that open the optional and the fixed blocks after the directive,
\* in the order the blocks are to appear
BlockMarkers ==
  <<"## Project Information", "Technologies detected: ", "## Project Documentation",
    "## Project Structure">>

\* the markers that occur come once each and in the order of BlockMarkers
MarkersInOrder(text) ==
  /\ \A i \in 1..Len(BlockMarkers) :
       PositionsOf(text, BlockMarkers[i]) # {} => Once(text, BlockMarkers[i])
  /\ \A i, j \in 1..Len(BlockMarkers) :
       (i < j /\ PositionsOf(text, BlockMarkers[i]) # {}
              /\ PositionsOf(text, BlockMarkers[j]) # {})
         => FirstOf(text, BlockMarkers[i]) < FirstOf(text, BlockMarkers[j])

\* the hashes of the commit blocks of a text, in the order of the blocks
HashesOf(text) ==
  LET at == SelectSeq([k \in 1..Len(text) |-> k], LAMBDA k : text[k] = "### Commit: ")
  IN  [n \in 1..Len(at) |-> text[at[n] + 1]]

\* a text made of header, directive, the marked blocks in order, the commit
\* blocks of the given hashes after the structure block, and the checklist
BlocksInOrder(text, header, directive, checklist, hashes) ==
  /\ startsWith(text, header \o directive)
  /\ endsWith(text, checklist)
  /\ Once(text, "## Project Information")
  /\ Once(text, "## Project Structure")
  /\ FirstOf(text, "## Project Information") = Len(header \o directive) + 1
  /\ MarkersInOrder(text)
  /\ HashesOf(text) = hashes
  /\ \A k \in PositionsOf(text, "### Commit: ") :
       FirstOf(text, "## Project Structure") < k /\ k < Len(text) - Len(checklist)

\* what has the documentation and technology blocks
\* C27: every prompt produced for a commit-range or a whole-project request
\* has its blocks in the order instruction header, mode directive,
\* project-identity block, detected-technology line, documentation block,
\* directory-structure block, commit blocks (commit-range requests only, one
\* per input commit in input order), trailing checklist; directive and
\* checklist belong to the same mode, review or summary.
C27_BlocksInFixedOrder ==
  outputs # <<>> =>
    /\ \A r \in outputs["createAnalysisPrompt"] :
         r.out.kind = "ok" =>
           BlocksInOrder(r.out.text, AnalysisHeader,
                         IF performCodeReview THEN ReviewDirective ELSE SummaryDirective,
                         IF performCodeReview THEN ReviewChecklist ELSE SummaryChecklist,
                         [n \in 1..Len(promptCommits) |-> promptCommits[n].hash])
    /\ \A r \in outputs["createProjectAnalysisPrompt"] :
         r.out.kind = "ok" =>
           BlocksInOrder(r.out.text, ProjectHeader,
                         IF performCodeReview THEN ProjectReviewDirective
                         ELSE ProjectOverviewDirective,
                         IF performCodeReview THEN ProjectReviewChecklist
                         ELSE ProjectOverviewChecklist,
                         <<>>)

C27_Witness ==
  /\ outputs # <<>>
  /\ ProjectIdentified(promptInfo)
  /\ Len(promptCommits) = 2
  /\ performCodeReview
  /\ \E r \in outputs["createAnalysisPrompt"] :
       r.out.kind = "ok" /\ PositionsOf(r.out.text, "## Project Documentation") # {}
  /\ \E r \in outputs["createProjectAnalysisPrompt"] :
       r.out.kind = "ok" /\ PositionsOf(r.out.text, "Technologies detected: ") # {}

(***************************************************************************)
(* Properties of prompt assembly over what getProjectInfo returns          *)
(***************************************************************************)
\* C28: prompt assembly is total over the outputs of getProjectInfo: for
\* every object it can return, one with requirements.txt or package.json
\* recorded as existing but unreadable among them, createAnalysisPrompt and
\* generateRepositoryContext return a text and raise no error.
C28_AssemblyTotal ==
  /\ prompt.kind # "err"
  /\ context.kind # "err"

(***************************************************************************)
(* Properties of analyzeCommand                                            *)
(***************************************************************************)
\* the last thing printed is an error line
ErrorReported ==
  /\ printed # <<>>
  /\ startsWith(printed[Len(printed)], <<"Error: ">>)

\* C29: in analyzeCommand README_cnav.md is written only after the gateway
\* has returned text, and the working directory is restored on every exit
\* path: if context gathering or the inference call fails, README_cnav.md is
\* left unchanged, the working directory is restored before the error is
\* reported, and the process ends with non-zero status.
C29_ArtifactAfterTextCwdRestored ==
  cmd = "analyze" =>
    /\ "README_cnav.md" \in written =>
         /\ invoked = 1
         /\ raised = <<>>
         /\ printed[Len(printed)] \in GatewayTexts
    /\ RunEnded => cwd = "original"
    /\ cwd = "target" => cmdPc \in {"gathering", "awaiting"}
    /\ cmdPc = "exited" =>
         /\ exitCode = 1
         /\ ErrorReported
         /\ "README_cnav.md" \notin written
    /\ ErrorReported => (cwd = "original" /\ cmdPc = "exited")

C29_Witness ==
  /\ cmd = "analyze"
  /\ cmdPc = "exited"
  /\ invoked = 1
  /\ raised \in TransportErrors
  /\ ErrorReported

C29_WitnessGathering ==
  /\ cmd = "analyze"
  /\ cmdPc = "exited"
  /\ invoked = 0
  /\ printed[Len(printed)] \in {errorLine(message) : message \in ProjectInfoErrors}

C29_WitnessWritten ==
  /\ cmd = "analyze"
  /\ cmdPc = "returned"
  /\ "README_cnav.md" \in written
  /\ countArg = "proj"

(***************************************************************************)
(* Properties of changelogCommand                                          *)
(***************************************************************************)
\* the run wrote the file and returned
ChangelogUpdated == changelogPc = "returned" /\ newCommits # <<>>

\* C30: changelogCommand only ever prepends to CHANGELOG.md: after a
\* successful run the previous content is an unmodified suffix of the new
\* content, preceded by the generated entry and a blank line (with no previous
\* content the file is the entry alone); when no commits are found, or
\* retrieval or generation fails, the file is left unchanged, and in the
\* no-commit case no inference call is made.
C30_ChangelogOnlyPrepended ==
  /\ ChangelogUpdated =>
       /\ changelogFile.exists
       /\ endsWith(changelogFile.content, fileAtStart.content)
       /\ startsWith(changelogFile.content, changelogContent)
       /\ fileAtStart.content # <<>> =>
            changelogFile.content = changelogContent \o <<NL, NL>> \o fileAtStart.content
       /\ fileAtStart.content = <<>> => changelogFile.content = changelogContent
  /\ ~ChangelogUpdated => changelogFile = fileAtStart
  /\ (changelogPc = "returned" /\ newCommits = <<>>) => completions = 0
  /\ completions <= 1

C30_Witness ==
  /\ ChangelogUpdated
  /\ fileAtStart.content # <<>>
  /\ changelogContent # NoChangelogContent
  /\ Len(changelogFile.content) > Len(fileAtStart.content) + 2

C30_WitnessNoCommits ==
  /\ changelogPc = "returned"
  /\ newCommits = <<>>
  /\ fileAtStart.exists

C30_WitnessFailed ==
  /\ changelogPc = "exited"
  /\ completions = 1
  /\ changelogExit = 1
  /\ fileAtStart.content # <<>>

====
